---------------------------- MODULE Spec2Model ----------------------------
(***************************************************************************)
(* A model of gonfig: the gen-go code generator (cmd/gonfig/main.go: the   *)
(* type registry, the struct emitter, the validate-comment compiler) and   *)
(* the ${VAR} expander (expand.go).                                        *)
(*                                                                         *)
(* Go strings are modelled as sequences of one-character strings, so that  *)
(* prefix tests, splitting, trimming, upper-casing and byte-wise sorting   *)
(* are computed the way the code computes them.                            *)
(***************************************************************************)
EXTENDS Integers, Sequences, FiniteSets, TLC

VARIABLES
    pc,          \* position of the modelled program
    run,         \* gen-go: 1 or 2, the generateGoCode call in progress
    rootName,    \* gen-go: rootName argument
    doc,         \* gen-go: m, the decoded top-level mapping
    validations, \* gen-go: validations argument
    reg,         \* gen-go: the typeRegistry
    typeNames,   \* gen-go: typeNames local of generateGoCode
    ti,          \* gen-go: index of the range over typeNames
    out,         \* gen-go: the strings.Builder b, as a sequence of lines
    result,      \* gen-go: <<text of call 1, text of call 2>>
    shape,       \* validate: the abstract tokens the comment was written from
    ast,         \* validate: the yaml.Node document
    vals,        \* validate: result of collectValidations
    pieces,      \* expand: the pieces the input text was written from
    text,        \* expand: s
    env,         \* expand: the process environment
    strict,      \* expand: strict
    expanded,    \* expand: the (string, error) pair returned
    loadOpts,    \* load: the options passed to Load
    oi,          \* load: index of the range over loadOpts
    configFile,  \* load: l.configFile
    dotenvs,     \* load: l.dotenvs
    di,          \* load: index of the range over l.dotenvs
    files,       \* load: the file system, path -> file
    target,      \* load: how T takes the expanded text
    cfg,         \* load: the local cfg of Load
    calls,       \* load: the calls Load has made, in order
    ret,         \* load: the (T, error) pair returned
    conf,        \* run: the config value c the emitted Validate is called on
    mi,          \* run: position in the emitted method
    checked,     \* run: the positions of the checks evaluated, in order
    verr,        \* run: the error the emitted Validate returned
    call         \* registry: the ensureMapType call in progress or just made

vars == <<pc, run, rootName, doc, validations, reg, typeNames, ti, out, result,
          shape, ast, vals, pieces, text, env, strict, expanded,
          loadOpts, oi, configFile, dotenvs, di, files, target, cfg, calls, ret,
          conf, mi, checked, verr, call>>

genVars == <<run, rootName, doc, validations, reg, typeNames, ti, out, result>>

valVars == <<shape, ast, vals>>

expVars == <<pieces, text, env, strict, expanded>>

loadVars == <<loadOpts, oi, configFile, dotenvs, di, files, target, cfg, calls, ret>>

runVars == <<conf, mi, checked, verr>>

---------------------------------------------------------------------------
(* Bounds of the model.                                                    *)

\* keys of the top-level mapping of a generated document
MaxRootKeys == 2

\* map iteration orders tried per range over a Go map: seeds 0..MaxSeed
MaxSeed == 2

\* tokens of a validate: comment
MaxTokens == 3

\* pieces of an expander input text
MaxPieces == 3

\* options passed to one call of Load
MaxOpts == 3

\* entries of the validation list of an emitted Validate method that is run
MaxVals == 2

\* calls of ensureMapType made on one registry
MaxCalls == 3

\* characters of a key handed to toExportedName
MaxKeyLen == 2

\* fields of one mapping of a document walked for validate: comments
MaxFields == 2

---------------------------------------------------------------------------
(* Strings.                                                                *)

\* The characters used, in increasing byte order.
AsciiOrder ==
    << " ", "#", "$", "+", ",", "-", ".",
       "0", "1", "2", "3", "4", "5", "6", "7", "8", "9", ":", "=",
       "A", "B", "C", "D", "E", "F", "G", "H", "I", "J", "K", "L", "M",
       "N", "O", "P", "Q", "R", "S", "T", "U", "V", "W", "X", "Y", "Z",
       "[", "]", "_",
       "a", "b", "c", "d", "e", "f", "g", "h", "i", "j", "k", "l", "m",
       "n", "o", "p", "q", "r", "s", "t", "u", "v", "w", "x", "y", "z",
       "{", "|", "}" >>

\* the rank of each character
OrdTable ==
    [ c \in { AsciiOrder[i] : i \in 1..Len(AsciiOrder) } |->
        CHOOSE i \in 1..Len(AsciiOrder) : AsciiOrder[i] = c ]

Ord(c) == OrdTable[c]

LowerLetters ==
    << "a", "b", "c", "d", "e", "f", "g", "h", "i", "j", "k", "l", "m",
       "n", "o", "p", "q", "r", "s", "t", "u", "v", "w", "x", "y", "z" >>

UpperLetters ==
    << "A", "B", "C", "D", "E", "F", "G", "H", "I", "J", "K", "L", "M",
       "N", "O", "P", "Q", "R", "S", "T", "U", "V", "W", "X", "Y", "Z" >>

Digits == << "0", "1", "2", "3", "4", "5", "6", "7", "8", "9" >>

IsLower(c) == \E i \in 1..Len(LowerLetters) : LowerLetters[i] = c

ToUpper(c) ==
    IF IsLower(c)
    THEN UpperLetters[CHOOSE i \in 1..Len(LowerLetters) : LowerLetters[i] = c]
    ELSE c

IsDigit(c) == \E i \in 1..Len(Digits) : Digits[i] = c

DigitVal(c) == (CHOOSE i \in 1..Len(Digits) : Digits[i] = c) - 1

IsSpace(c) == c = " "

HasPrefix(s, p) == Len(s) >= Len(p) /\ SubSeq(s, 1, Len(p)) = p

HasSuffix(s, p) ==
    Len(s) >= Len(p) /\ SubSeq(s, Len(s) - Len(p) + 1, Len(s)) = p

Drop(s, n) == SubSeq(s, n + 1, Len(s))

RECURSIVE TrimLeft(_)
TrimLeft(s) ==
    IF s # <<>> /\ IsSpace(Head(s)) THEN TrimLeft(Tail(s)) ELSE s

RECURSIVE TrimRight(_)
TrimRight(s) ==
    IF s # <<>> /\ IsSpace(s[Len(s)])
    THEN TrimRight(SubSeq(s, 1, Len(s) - 1))
    ELSE s

TrimSpace(s) == TrimRight(TrimLeft(s))

\* strings.Index: the first position (from 0) where p occurs in s, or -1
Index(s, p) ==
    LET hits == { i \in 0..(Len(s) - Len(p)) : SubSeq(s, i + 1, i + Len(p)) = p }
    IN  IF hits = {} THEN -1
        ELSE CHOOSE i \in hits : \A j \in hits : i <= j

\* strings.Split(s, sep) for a one-character separator: always at least one part
RECURSIVE Split(_, _)
Split(s, sep) ==
    LET i == Index(s, <<sep>>)
    IN  IF i = -1 THEN << s >>
        ELSE << SubSeq(s, 1, i) >> \o Split(Drop(s, i + 1), sep)

\* strings.Join
RECURSIVE Join(_, _)
Join(parts, sep) ==
    IF parts = <<>> THEN <<>>
    ELSE IF Len(parts) = 1 THEN parts[1]
    ELSE parts[1] \o sep \o Join(Tail(parts), sep)

\* strconv.Itoa for n >= 0
RECURSIVE Itoa(_)
Itoa(n) ==
    IF n < 10 THEN << Digits[n + 1] >>
    ELSE Itoa(n \div 10) \o << Digits[(n % 10) + 1] >>

\* a < b as Go compares strings: byte-wise, a proper prefix first
StrLess(a, b) ==
    \E i \in 1..(Len(b)) :
        /\ i <= Len(a) + 1
        /\ SubSeq(a, 1, i - 1) = SubSeq(b, 1, i - 1)
        /\ \/ i = Len(a) + 1
           \/ Ord(a[i]) < Ord(b[i])

\* sort.Strings, as an insertion sort
RECURSIVE Insert(_, _)
Insert(sorted, x) ==
    IF sorted = <<>> THEN << x >>
    ELSE IF StrLess(x, Head(sorted)) THEN << x >> \o sorted
    ELSE << Head(sorted) >> \o Insert(Tail(sorted), x)

RECURSIVE SortStrings(_)
SortStrings(s) ==
    IF s = <<>> THEN <<>>
    ELSE Insert(SortStrings(SubSeq(s, 1, Len(s) - 1)), s[Len(s)])

\* The order in which one `for k := range m` visits the key set S: Go leaves
\* it unspecified, so it is a choice, here indexed by seed (the seeds
\* 0..n!-1 give every order of n keys).
RECURSIVE MapRange(_, _)
MapRange(S, seed) ==
    IF S = {} THEN <<>>
    ELSE LET n == Cardinality(S)
             k == seed % n
             x == CHOOSE e \in S : Cardinality({ y \in S : StrLess(y, e) }) = k
         IN  << x >> \o MapRange(S \ {x}, seed \div n)

Seeds == 0..MaxSeed

\* map[k] = v
Put(f, k, v) == (k :> v) @@ f

---------------------------------------------------------------------------
(* gen-go: decoded YAML values (the `any` tree yaml.Unmarshal builds).     *)

Val(kind, m, l) == [kind |-> kind, m |-> m, l |-> l]

StringVal == Val("string", <<>>, <<>>)

IntVal == Val("int", <<>>, <<>>)

FloatVal == Val("float64", <<>>, <<>>)

BoolVal == Val("bool", <<>>, <<>>)

\* a YAML null decodes to a nil interface: the default arm of the type switch
NilVal == Val("nil", <<>>, <<>>)

MapVal(m) == Val("map", m, <<>>)

ListVal(l) == Val("list", <<>>, l)

---------------------------------------------------------------------------
(* gen-go: names.                                                          *)

sConfig == << "C", "o", "n", "f", "i", "g" >>

sSection == << "S", "e", "c", "t", "i", "o", "n" >>

sField == << "F", "i", "e", "l", "d" >>

sItem == << "I", "t", "e", "m" >>

sBrackets == << "[", "]" >>

sAny == << "a", "n", "y" >>

sBool == << "b", "o", "o", "l" >>

sInt == << "i", "n", "t" >>

sFloat64 == << "f", "l", "o", "a", "t", "6", "4" >>

sString == << "s", "t", "r", "i", "n", "g" >>

sFmt == << "f", "m", "t" >>

\* splitFn of toExportedName
IsSeparator(c) == c \in { "_", "-", " ", "." }

\* strings.FieldsFunc(key, splitFn): the maximal runs of non-separators
RECURSIVE FieldsFunc(_, _)
FieldsFunc(s, cur) ==
    IF s = <<>> THEN (IF cur = <<>> THEN <<>> ELSE << cur >>)
    ELSE IF IsSeparator(Head(s))
         THEN (IF cur = <<>> THEN <<>> ELSE << cur >>) \o FieldsFunc(Tail(s), <<>>)
         ELSE FieldsFunc(Tail(s), Append(cur, Head(s)))

\* the loop of toExportedName that upper-cases the first rune of each part
Capitalize(p) == IF p = <<>> THEN p ELSE << ToUpper(Head(p)) >> \o Tail(p)

\* toExportedName after the split: capitalise the parts, join, export
ExportParts(parts) ==
    IF Len(parts) = 0 THEN sField
    ELSE Capitalize(Join([ i \in 1..Len(parts) |-> Capitalize(parts[i]) ], <<>>))

toExportedName(key) == ExportParts(FieldsFunc(key, <<>>))

\* sortedKeys without the sort.Strings call
sortedKeys_Unsorted(m, seed) == MapRange(DOMAIN m, seed)

RECURSIVE Reverse(_)
Reverse(s) == IF s = <<>> THEN <<>> ELSE Append(Reverse(Tail(s)), Head(s))

\* sortedKeys with the keys sorted in decreasing order
sortedKeys_Descending(m, seed) == Reverse(SortStrings(MapRange(DOMAIN m, seed)))

\* sortedKeys(m): the keys of m, collected in map order (seed), then sorted
sortedKeys(m, seed) == SortStrings(MapRange(DOMAIN m, seed))

---------------------------------------------------------------------------
(* gen-go: the type registry.                                              *)

newTypeRegistry(root) ==
    [ rootName       |-> root,
      byYAMLPath     |-> <<>>,
      pathByType     |-> <<>>,
      segmentsByYAML |-> <<>>,
      defsByType     |-> <<>>,
      usedNames      |-> { root } ]

\* the base name of deriveTypeName: the non-empty segments concatenated,
\* "Section" when that is empty, "Config" appended unless it ends with it
RECURSIVE ConcatSegments(_)
ConcatSegments(segs) ==
    IF segs = <<>> THEN <<>> ELSE Head(segs) \o ConcatSegments(Tail(segs))

CandidateName(pathSegments) ==
    LET base    == ConcatSegments(pathSegments)
        baseStr == IF base = <<>> THEN sSection ELSE base
    IN  IF HasSuffix(baseStr, sConfig) THEN baseStr ELSE baseStr \o sConfig

\* the loop `for r.usedNames[typeName+strconv.Itoa(i)] { i++ }`
RECURSIVE FirstFree(_, _, _)
FirstFree(used, typeName, i) ==
    IF (typeName \o Itoa(i)) \in used THEN FirstFree(used, typeName, i + 1) ELSE i

\* `if typeName == r.rootName { typeName += "Section" }`
WithSection(root, typeName) ==
    IF typeName = root THEN typeName \o sSection ELSE typeName

\* the number 2 taken without the loop over usedNames
WithNumber_AlwaysTwo(used, typeName) ==
    IF typeName \in used THEN typeName \o Itoa(2) ELSE typeName

\* `if r.usedNames[typeName] { ... typeName = typeName + strconv.Itoa(i) }`
WithNumber(used, typeName) ==
    IF typeName \in used
    THEN typeName \o Itoa(FirstFree(used, typeName, 2))
    ELSE typeName

\* `r.usedNames[typeName] = true; return typeName`: [reg, name]
MarkUsed(r, typeName) ==
    [ reg |-> [ r EXCEPT !.usedNames = @ \cup { typeName } ], name |-> typeName ]

\* deriveTypeName without the usedNames loop
deriveTypeName_NoNumbering(r, pathSegments) ==
    MarkUsed(r, WithSection(r.rootName, CandidateName(pathSegments)))

\* deriveTypeName without the root-name test
deriveTypeName_NoSection(r, pathSegments) ==
    MarkUsed(r, WithNumber(r.usedNames, CandidateName(pathSegments)))

\* deriveTypeName: [reg, name]
deriveTypeName(r, pathSegments) ==
    MarkUsed(r, WithNumber(r.usedNames,
                           WithSection(r.rootName, CandidateName(pathSegments))))

RECURSIVE goTypeExprWithRegistry(_, _, _, _, _)
RECURSIVE ensureMapType(_, _, _, _, _)
RECURSIVE ensureChildren(_, _, _, _, _, _, _)

sStruct == << "s", "t", "r", "u", "c", "t", " ", "{" >>

\* the mapping arm of the older goTypeExpr: an anonymous struct type
NamedType_Anonymous(e) == [ reg |-> e.reg, expr |-> sStruct, ok |-> TRUE ]

\* `return r.ensureMapType(...), true`
NamedType(e) == [ reg |-> e.reg, expr |-> e.name, ok |-> TRUE ]

\* `return "[]" + elemType, true`
SliceOf(e) == [ reg |-> e.reg, expr |-> sBrackets \o e.expr, ok |-> TRUE ]

\* the list arm looking at the last element
FirstElement_Last(l) == l[Len(l)]

\* `v[0]` of the list arm
FirstElement(l) == l[1]

\* goTypeExprWithRegistry: [reg, expr, ok]
goTypeExprWithRegistry(r, v, yamlPath, pathSegments, seed) ==
    CASE v.kind = "map" ->
            NamedType(ensureMapType(r, pathSegments, yamlPath, v.m, seed))
      [] v.kind = "list" ->
            IF Len(v.l) = 0
            THEN [ reg |-> r, expr |-> sBrackets \o sAny, ok |-> FALSE ]
            ELSE SliceOf(goTypeExprWithRegistry(r, FirstElement(v.l), yamlPath \o sBrackets,
                                                Append(pathSegments, sItem), seed))
      [] v.kind = "bool"    -> [ reg |-> r, expr |-> sBool, ok |-> TRUE ]
      [] v.kind = "int"     -> [ reg |-> r, expr |-> sInt, ok |-> TRUE ]
      [] v.kind = "float64" -> [ reg |-> r, expr |-> sFloat64, ok |-> TRUE ]
      [] v.kind = "string"  -> [ reg |-> r, expr |-> sString, ok |-> TRUE ]
      [] OTHER              -> [ reg |-> r, expr |-> sAny, ok |-> FALSE ]

\* ensureMapType without its loop over the keys
ensureChildren_None(r, keys, i, m, yamlPath, pathSegments, seed) == r

\* the loop of ensureMapType over the sorted keys, from index i
ensureChildren(r, keys, i, m, yamlPath, pathSegments, seed) ==
    IF i > Len(keys) THEN r
    ELSE ensureChildren(
             goTypeExprWithRegistry(r, m[keys[i]], yamlPath \o << "." >> \o keys[i],
                                    Append(pathSegments, toExportedName(keys[i])),
                                    seed).reg,
             keys, i + 1, m, yamlPath, pathSegments, seed)

\* the four map assignments of ensureMapType
Register(r, typeName, pathSegments, yamlPath, m) ==
    [ r EXCEPT !.byYAMLPath     = Put(@, yamlPath, typeName),
               !.pathByType     = Put(@, typeName, yamlPath),
               !.segmentsByYAML = Put(@, yamlPath, pathSegments),
               !.defsByType     = Put(@, typeName, m) ]

\* ensureMapType after the derivation d of the name: [reg, name]
EnsureNew(d, pathSegments, yamlPath, m, seed) ==
    [ reg  |-> ensureChildren(Register(d.reg, d.name, pathSegments, yamlPath, m),
                              sortedKeys(m, seed), 1, m, yamlPath, pathSegments, seed),
      name |-> d.name ]

\* ensureMapType without the test of byYAMLPath
ensureMapType_NoMemo(r, pathSegments, yamlPath, m, seed) ==
    EnsureNew(deriveTypeName(r, pathSegments), pathSegments, yamlPath, m, seed)

\* ensureMapType: [reg, name]
ensureMapType(r, pathSegments, yamlPath, m, seed) ==
    IF yamlPath \in DOMAIN r.byYAMLPath
    THEN [ reg |-> r, name |-> r.byYAMLPath[yamlPath] ]
    ELSE EnsureNew(deriveTypeName(r, pathSegments), pathSegments, yamlPath, m, seed)

\* the loop of collectFromRoot over the sorted keys, from index i
RECURSIVE collectLoop(_, _, _, _, _)
collectLoop(r, keys, i, m, seed) ==
    IF i > Len(keys) THEN r
    ELSE collectLoop(
             goTypeExprWithRegistry(r, m[keys[i]], keys[i],
                                    << toExportedName(keys[i]) >>, seed).reg,
             keys, i + 1, m, seed)

\* collectFromRoot registering nothing
collectFromRoot_Nothing(r, m, seed) == r

collectFromRoot(r, m, seed) == collectLoop(r, sortedKeys(m, seed), 1, m, seed)

\* sortedTypeNames without the sort.Strings call
sortedTypeNames_Unsorted(r, seed) == MapRange(DOMAIN r.defsByType, seed)

\* sortedTypeNames: the keys of defsByType, collected in map order, sorted
sortedTypeNames(r, seed) == SortStrings(MapRange(DOMAIN r.defsByType, seed))

---------------------------------------------------------------------------
(* gen-go: the emitter.  The builder is a sequence of lines; a line keeps  *)
(* the arguments of the Fprintf that wrote it.                             *)

Line(kind, name, type, key) ==
    [ kind |-> kind, name |-> name, type |-> type, key |-> key ]

\* fmt.Fprintf(b, "%s%s %s `yaml:\"%s\"`\n", fieldIndent, fieldName, typeExpr, key)
FieldLine(fieldName, typeExpr, key) == Line("field", fieldName, typeExpr, key)

\* a line written before the lines w.lines
Before(line, w) == [ reg |-> w.reg, lines |-> << line >> \o w.lines ]

\* `type <name> struct {`, the field lines, `}`
StructLines(name, w) ==
    [ reg   |-> w.reg,
      lines |-> << Line("type", name, <<>>, <<>>) >> \o w.lines
                \o << Line("end", name, <<>>, <<>>) >> ]

RECURSIVE writeFields(_, _, _, _, _, _, _)
RECURSIVE writeField(_, _, _, _, _, _, _)

\* the Fprintf of the field keys[i] whose type expression is e, then the
\* rest of the loop of writeStruct
writeField(e, keys, i, m, yamlPath, baseSegments, seed) ==
    Before(FieldLine(toExportedName(keys[i]), e.expr, keys[i]),
           writeFields(e.reg, keys, i + 1, m, yamlPath, baseSegments, seed))

\* the loop of writeStruct over the sorted keys, from index i: [reg, lines]
writeFields(r, keys, i, m, yamlPath, baseSegments, seed) ==
    IF i > Len(keys) THEN [ reg |-> r, lines |-> <<>> ]
    ELSE writeField(
             goTypeExprWithRegistry(r, m[keys[i]], yamlPath \o << "." >> \o keys[i],
                                    Append(baseSegments, toExportedName(keys[i])),
                                    seed),
             keys, i, m, yamlPath, baseSegments, seed)

\* baseSegments := reg.segmentsByYAML[yamlPath] (nil when absent)
SegmentsOf(r, yamlPath) ==
    IF yamlPath \in DOMAIN r.segmentsByYAML THEN r.segmentsByYAML[yamlPath] ELSE <<>>

\* writeStruct: [reg, lines]
writeStruct(name, yamlPath, m, r, seed) ==
    StructLines(name, writeFields(r, sortedKeys(m, seed), 1, m, yamlPath,
                                  SegmentsOf(r, yamlPath), seed))

RECURSIVE writeRootFields(_, _, _, _, _)
RECURSIVE writeRootField(_, _, _, _, _)

\* the Fprintf of the field keys[i] whose type expression is e, then the
\* rest of the loop of writeRootStruct
writeRootField(e, keys, i, m, seed) ==
    Before(FieldLine(toExportedName(keys[i]), e.expr, keys[i]),
           writeRootFields(e.reg, keys, i + 1, m, seed))

\* the loop of writeRootStruct over the sorted keys, from index i: [reg, lines]
writeRootFields(r, keys, i, m, seed) ==
    IF i > Len(keys) THEN [ reg |-> r, lines |-> <<>> ]
    ELSE writeRootField(
             goTypeExprWithRegistry(r, m[keys[i]], keys[i],
                                    << toExportedName(keys[i]) >>, seed),
             keys, i, m, seed)

\* writeRootStruct: [reg, lines]
writeRootStruct(name, m, r, seed) ==
    StructLines(name, writeRootFields(r, sortedKeys(m, seed), 1, m, seed))

\* fmt imported whatever the list
requiredImports_Always(vs) == << sFmt >>

\* requiredImports
requiredImports(vs) == IF Len(vs) = 0 THEN <<>> ELSE << sFmt >>

---------------------------------------------------------------------------
(* gen-go: the Validate() emitter.                                         *)

\* a fieldValidation; a *float64 is <<>> (nil) or <<n>>
FieldValidation(goExpr, yamlPath, goType, required, min, max, oneOf) ==
    [ GoExpr |-> goExpr, YAMLPath |-> yamlPath, GoType |-> goType,
      Required |-> required, Min |-> min, Max |-> max, OneOf |-> oneOf ]

\* one emitted `if <expr> <cond> { return fmt.Errorf(<path> <what>) }` or
\* `switch <expr> { case ...: default: return fmt.Errorf(...) }`
CheckLine(cond, v, arg) ==
    [ kind |-> "check", cond |-> cond, expr |-> v.GoExpr, path |-> v.YAMLPath,
      arg |-> arg ]

\* `v.GoType == "int" || v.GoType == "float64"` with the float64 half dropped
IsNumeric_IntOnly(goType) == goType = sInt

IsNumeric(goType) == goType = sInt \/ goType = sFloat64

\* the body of the loop with the oneOf check written first
validateChecks_OneOfFirst(v) ==
    (IF Len(v.OneOf) > 0 /\ v.GoType = sString
     THEN << CheckLine("oneof", v, v.OneOf) >>
     ELSE <<>>)
    \o (IF v.Required /\ v.GoType = sString THEN << CheckLine("required ==\"\"", v, <<>>) >>
        ELSE IF v.Required /\ IsNumeric(v.GoType) THEN << CheckLine("required ==0", v, <<>>) >>
        ELSE <<>>)
    \o (IF (v.Min # <<>> \/ v.Max # <<>>) /\ IsNumeric(v.GoType)
        THEN (IF v.Min # <<>> THEN << CheckLine("min <", v, v.Min) >> ELSE <<>>)
             \o (IF v.Max # <<>> THEN << CheckLine("max >", v, v.Max) >> ELSE <<>>)
        ELSE <<>>)

\* the body of the loop of writeValidateMethod for one entry
validateChecks(v) ==
    (IF v.Required /\ v.GoType = sString THEN << CheckLine("required ==\"\"", v, <<>>) >>
     ELSE IF v.Required /\ IsNumeric(v.GoType) THEN << CheckLine("required ==0", v, <<>>) >>
     ELSE <<>>)
    \o (IF (v.Min # <<>> \/ v.Max # <<>>) /\ IsNumeric(v.GoType)
        THEN (IF v.Min # <<>> THEN << CheckLine("min <", v, v.Min) >> ELSE <<>>)
             \o (IF v.Max # <<>> THEN << CheckLine("max >", v, v.Max) >> ELSE <<>>)
        ELSE <<>>)
    \o (IF Len(v.OneOf) > 0 /\ v.GoType = sString
        THEN << CheckLine("oneof", v, v.OneOf) >>
        ELSE <<>>)

RECURSIVE validateLoop(_, _)
validateLoop(vs, i) ==
    IF i > Len(vs) THEN <<>> ELSE validateChecks(vs[i]) \o validateLoop(vs, i + 1)

writeValidateMethod(root, vs) ==
    << Line("func", root, <<>>, <<>>) >> \o validateLoop(vs, 1)
    \o << Line("return nil", root, <<>>, <<>>) >>

---------------------------------------------------------------------------
(* gen-go: the inputs.                                                     *)

kA == << "a" >>

kB == << "b" >>

kC == << "c" >>

kADotB == << "a", ".", "b" >>

kAUnderB == << "a", "_", "b" >>

kConfig == << "c", "o", "n", "f", "i", "g" >>

RootKeys == { kA, kADotB, kAUnderB, kConfig }

RootNames == { sConfig, << "A", "B" >> \o sConfig }

EmptyMap == MapVal(<<>>)

\* the values a top-level key may hold: scalars, lists and nested mappings
FieldValues ==
    { StringVal, NilVal,
      ListVal(<<>>), ListVal(<< EmptyMap >>), ListVal(<< StringVal, EmptyMap >>),
      EmptyMap, MapVal((kB :> EmptyMap) @@ (kC :> StringVal)) }

Documents ==
    UNION { [ K -> FieldValues ] :
              K \in { S \in SUBSET RootKeys : Cardinality(S) <= MaxRootKeys } }

\* the entry of TestGenerateGoCode_WithValidateAddsFmtImport
AppNameRequired ==
    FieldValidation(<< "c", ".", "A", "p", "p", "N", "a", "m", "e" >>,
                    << "a", "p", "p", "_", "n", "a", "m", "e" >>,
                    sString, TRUE, <<>>, <<>>, <<>>)

ValidationLists == { <<>>, << AppNameRequired >> }

NoRegistry ==
    [ rootName |-> <<>>, byYAMLPath |-> <<>>, pathByType |-> <<>>,
      segmentsByYAML |-> <<>>, defsByType |-> <<>>, usedNames |-> {} ]

---------------------------------------------------------------------------
(* The states in which the other programs are idle.                        *)

GenIdle ==
    /\ run = 0 /\ rootName = <<>> /\ doc = <<>> /\ validations = <<>>
    /\ reg = NoRegistry /\ typeNames = <<>> /\ ti = 0 /\ out = <<>>
    /\ result = << <<>>, <<>> >>

ValIdle == shape = <<>> /\ ast = <<>> /\ vals = <<>>

ExpIdle ==
    /\ pieces = <<>> /\ text = <<>> /\ env = <<>> /\ strict = FALSE
    /\ expanded = <<>>

LoadIdle ==
    /\ loadOpts = <<>> /\ oi = 0 /\ configFile = "" /\ dotenvs = <<>> /\ di = 0
    /\ files = <<>> /\ target = "" /\ cfg = "" /\ calls = <<>> /\ ret = <<>>

RunIdle == conf = <<>> /\ mi = 0 /\ checked = <<>> /\ verr = <<>>

CallIdle == call = <<>>

---------------------------------------------------------------------------
(* gen-go: generateGoCode, called twice on the same arguments.             *)

InitGen ==
    /\ pc = "gen.header"
    /\ run = 1
    /\ rootName \in RootNames
    /\ doc \in Documents
    /\ validations \in ValidationLists
    /\ reg = NoRegistry
    /\ typeNames = <<>>
    /\ ti = 0
    /\ out = <<>>
    /\ result = << <<>>, <<>> >>
    /\ ValIdle
    /\ ExpIdle
    /\ LoadIdle
    /\ RunIdle
    /\ CallIdle

\* generateGoCode, lines 293-308: header, package clause, imports
WriteHeader ==
    /\ pc = "gen.header"
    /\ out' = << Line("header", <<>>, <<>>, <<>>), Line("package", <<>>, <<>>, <<>>) >>
              \o [ i \in 1..Len(requiredImports(validations)) |->
                     Line("import", requiredImports(validations)[i], <<>>, <<>>) ]
    /\ pc' = "gen.registry"
    /\ UNCHANGED <<run, rootName, doc, validations, reg, typeNames, ti, result>>
    /\ UNCHANGED <<valVars, expVars, loadVars, runVars, call>>

\* reg := newTypeRegistry(rootName)
NewTypeRegistry ==
    /\ pc = "gen.registry"
    /\ reg' = newTypeRegistry(rootName)
    /\ pc' = "gen.collect"
    /\ UNCHANGED <<run, rootName, doc, validations, typeNames, ti, out, result>>
    /\ UNCHANGED <<valVars, expVars, loadVars, runVars, call>>

\* reg.collectFromRoot(m)
CollectFromRoot ==
    /\ pc = "gen.collect"
    /\ \E r \in { collectFromRoot(reg, doc, seed) : seed \in Seeds } : reg' = r
    /\ pc' = "gen.sort"
    /\ UNCHANGED <<run, rootName, doc, validations, typeNames, ti, out, result>>
    /\ UNCHANGED <<valVars, expVars, loadVars, runVars, call>>

\* typeNames := reg.sortedTypeNames()
SortedTypeNames ==
    /\ pc = "gen.sort"
    /\ \E names \in { sortedTypeNames(reg, seed) : seed \in Seeds } : typeNames' = names
    /\ ti' = 1
    /\ pc' = "gen.types"
    /\ UNCHANGED <<run, rootName, doc, validations, reg, out, result>>
    /\ UNCHANGED <<valVars, expVars, loadVars, runVars, call>>

\* the effect of a write w = [reg, lines] on the registry and the builder
Written(w) == reg' = w.reg /\ out' = out \o w.lines

\* one iteration of `for _, typeName := range typeNames`
WriteStruct ==
    /\ pc = "gen.types"
    /\ ti <= Len(typeNames)
    /\ \E w \in { writeStruct(typeNames[ti], reg.pathByType[typeNames[ti]],
                              reg.defsByType[typeNames[ti]], reg, seed) :
                    seed \in Seeds } : Written(w)
    /\ ti' = ti + 1
    /\ UNCHANGED <<pc, run, rootName, doc, validations, typeNames, result>>
    /\ UNCHANGED <<valVars, expVars, loadVars, runVars, call>>

\* writeRootStruct(&b, rootName, m, reg)
WriteRootStruct ==
    /\ pc = "gen.types"
    /\ ti > Len(typeNames)
    /\ \E w \in { writeRootStruct(rootName, doc, reg, seed) : seed \in Seeds } :
          Written(w)
    /\ pc' = IF Len(validations) > 0 THEN "gen.validate" ELSE "gen.return"
    /\ UNCHANGED <<run, rootName, doc, validations, typeNames, ti, result>>
    /\ UNCHANGED <<valVars, expVars, loadVars, runVars, call>>

\* writeValidateMethod(&b, rootName, validations)
WriteValidateMethod ==
    /\ pc = "gen.validate"
    /\ out' = out \o writeValidateMethod(rootName, validations)
    /\ pc' = "gen.return"
    /\ UNCHANGED <<run, rootName, doc, validations, reg, typeNames, ti, result>>
    /\ UNCHANGED <<valVars, expVars, loadVars, runVars, call>>

\* return b.String(); the first call is followed by a second one on the same
\* arguments, with a fresh builder and a fresh registry
GenReturn ==
    /\ pc = "gen.return"
    /\ result' = [ result EXCEPT ![run] = out ]
    /\ IF run = 1
       THEN /\ run' = 2
            /\ pc' = "gen.header"
            /\ reg' = NoRegistry
            /\ typeNames' = <<>>
            /\ ti' = 0
            /\ out' = <<>>
       ELSE /\ pc' = "gen.done"
            /\ UNCHANGED <<run, reg, typeNames, ti, out>>
    /\ UNCHANGED <<rootName, doc, validations>>
    /\ UNCHANGED <<valVars, expVars, loadVars, runVars, call>>

NextGen ==
    \/ WriteHeader
    \/ NewTypeRegistry
    \/ CollectFromRoot
    \/ SortedTypeNames
    \/ WriteStruct
    \/ WriteRootStruct
    \/ WriteValidateMethod
    \/ GenReturn

SpecGen == InitGen /\ [][NextGen]_vars

---------------------------------------------------------------------------
(* gen-go: properties.                                                     *)

RegisteredPaths == DOMAIN reg.byYAMLPath

RegisteredNames == { reg.byYAMLPath[p] : p \in RegisteredPaths }

\* the name deriveTypeName tries first for a registered path
CandidateOf(p) == CandidateName(reg.segmentsByYAML[p])

\* C1: the names the registry hands out are pairwise distinct (two paths
\* never get the same name), none of them is the root type's name, and the
\* root name is in usedNames from newTypeRegistry on.
C1_TypeNamesUnique ==
    /\ \A p, q \in RegisteredPaths :
          p # q => reg.byYAMLPath[p] # reg.byYAMLPath[q]
    /\ rootName \notin RegisteredNames
    /\ RegisteredNames \subseteq reg.usedNames
    /\ pc \notin { "gen.header", "gen.registry" } => rootName \in reg.usedNames

\* C1 witness: a run ended in which two paths had the same candidate name
C1_Witness ==
    /\ pc = "gen.done"
    /\ \E p, q \in RegisteredPaths : p # q /\ CandidateOf(p) = CandidateOf(q)

\* C2: the two calls of generateGoCode on the same arguments return the
\* same text, whatever order the maps were ranged over in each.
C2_Deterministic == pc = "gen.done" => result[1] = result[2]

\* C2 witness: both calls returned, on a document with two top-level keys
\* and at least two registered types
C2_Witness ==
    /\ pc = "gen.done"
    /\ Cardinality(DOMAIN doc) >= 2
    /\ Cardinality(DOMAIN reg.defsByType) >= 2
    /\ Len(result[2]) > 4

\* the struct a field line of the builder belongs to: the name of the last
\* `type ... struct {` line before it
OwnerOf(i) ==
    out[CHOOSE j \in 1..i : out[j].kind = "type"
                            /\ \A k \in (j + 1)..i : out[k].kind # "type"].name

\* the value of the field written at line i of the builder
FieldValueAt(i) ==
    IF OwnerOf(i) = rootName THEN doc[out[i].key]
    ELSE reg.defsByType[OwnerOf(i)][out[i].key]

MappingFieldLines ==
    { i \in 1..Len(out) : out[i].kind = "field" /\ FieldValueAt(i).kind = "map" }

Declared(typeName) == \E j \in 1..Len(out) : out[j] = Line("type", typeName, <<>>, <<>>)

\* a name of the form x, x2, x3, ...
IsNumbered(name, x) ==
    name = x \/ \E n \in 2..(Cardinality(reg.usedNames) + 1) : name = x \o Itoa(n)

RECURSIVE MapNodes(_, _, _)
MapNodes(v, pos, yamlPath) ==
    CASE v.kind = "map" ->
            { [ pos |-> pos, path |-> yamlPath ] }
            \cup UNION { MapNodes(v.m[k], Append(pos, k), yamlPath \o << "." >> \o k) :
                           k \in DOMAIN v.m }
      [] v.kind = "list" /\ Len(v.l) > 0 ->
            MapNodes(v.l[1], Append(pos, sBrackets), yamlPath \o sBrackets)
      [] OTHER -> {}

DocMapNodes == UNION { MapNodes(doc[k], << k >>, k) : k \in DOMAIN doc }

\* C4, as claimed: after the traversal every mapping node it reached has a
\* type definition of its own: its path is registered, the definition under
\* its name is that node's mapping, and two distinct nodes have two names.
C4_OneTypePerNode ==
    pc \in { "gen.sort", "gen.types", "gen.return", "gen.done" } =>
       \A n1, n2 \in DocMapNodes :
          /\ n1.path \in RegisteredPaths
          /\ n1.pos # n2.pos /\ n2.path \in RegisteredPaths
                => reg.byYAMLPath[n1.path] # reg.byYAMLPath[n2.path]

\* C5: a nested mapping whose candidate name is the root type's name is
\* named with the suffix Section put before any number, and that name is
\* neither the root name nor the name of another path.
C5_SectionSuffix ==
    \A p \in RegisteredPaths :
       CandidateOf(p) = rootName =>
          /\ HasPrefix(reg.byYAMLPath[p], rootName \o sSection)
          /\ reg.byYAMLPath[p] # rootName
          /\ \A q \in RegisteredPaths : q # p => reg.byYAMLPath[q] # reg.byYAMLPath[p]

\* C5 witness: a run ended with a path whose candidate name was the root name
C5_Witness ==
    /\ pc = "gen.done"
    /\ \E p \in RegisteredPaths : CandidateOf(p) = rootName

---------------------------------------------------------------------------
(* validate: the comment parser.                                           *)

sValidate == << "v", "a", "l", "i", "d", "a", "t", "e", ":" >>

sRequired == << "r", "e", "q", "u", "i", "r", "e", "d" >>

sMinEq == << "m", "i", "n", "=" >>

sMaxEq == << "m", "a", "x", "=" >>

sOneofEq == << "o", "n", "e", "o", "f", "=" >>

\* the zero validateRules
NoRules == [ Required |-> FALSE, Min |-> <<>>, Max |-> <<>>, OneOf |-> <<>> ]

\* the value of a string of decimal digits
RECURSIVE DecimalValue(_)
DecimalValue(s) ==
    IF s = <<>> THEN 0
    ELSE 10 * DecimalValue(SubSeq(s, 1, Len(s) - 1)) + DigitVal(s[Len(s)])

AllDigits(s) == s # <<>> /\ \A i \in 1..Len(s) : IsDigit(s[i])

\* strconv.ParseFloat(val, 64) on the numerals of this model, an optional
\* sign and decimal digits: [ok, f]; anything else is a syntax error
ParseFloat(s) ==
    IF s # <<>> /\ Head(s) = "-"
    THEN [ ok |-> AllDigits(Tail(s)),
           f  |-> IF AllDigits(Tail(s)) THEN 0 - DecimalValue(Tail(s)) ELSE 0 ]
    ELSE IF s # <<>> /\ Head(s) = "+"
    THEN [ ok |-> AllDigits(Tail(s)),
           f  |-> IF AllDigits(Tail(s)) THEN DecimalValue(Tail(s)) ELSE 0 ]
    ELSE [ ok |-> AllDigits(s), f |-> IF AllDigits(s) THEN DecimalValue(s) ELSE 0 ]

\* `if f, err := strconv.ParseFloat(val, 64); err == nil { rules.Min = &f; found = true }`
\* with the err test dropped
SetMin_IgnoreErr(acc, p) ==
    [ rules |-> [ acc.rules EXCEPT !.Min = << p.f >> ], ok |-> TRUE ]

\* `if f, err := strconv.ParseFloat(val, 64); err == nil { rules.Min = &f; found = true }`
SetMin(acc, p) ==
    IF p.ok THEN [ rules |-> [ acc.rules EXCEPT !.Min = << p.f >> ], ok |-> TRUE ]
    ELSE acc

\* the max= arm writing rules.Min
SetMax_IntoMin(acc, p) ==
    IF p.ok THEN [ rules |-> [ acc.rules EXCEPT !.Min = << p.f >> ], ok |-> TRUE ]
    ELSE acc

\* the same for rules.Max
SetMax(acc, p) ==
    IF p.ok THEN [ rules |-> [ acc.rules EXCEPT !.Max = << p.f >> ], ok |-> TRUE ]
    ELSE acc

\* the oneof loop without the `if o != ""` test
FilterAlts_KeepEmpty(opts) == [ i \in 1..Len(opts) |-> TrimSpace(opts[i]) ]

\* the loop over opts: each trimmed, the empty ones dropped
RECURSIVE FilterAlts(_)
FilterAlts(opts) ==
    IF opts = <<>> THEN <<>>
    ELSE (IF TrimSpace(Head(opts)) # <<>> THEN << TrimSpace(Head(opts)) >> ELSE <<>>)
         \o FilterAlts(Tail(opts))

\* `if len(filtered) > 0 { rules.OneOf = filtered; found = true }`
SetOneOf(acc, filtered) ==
    IF Len(filtered) > 0
    THEN [ rules |-> [ acc.rules EXCEPT !.OneOf = filtered ], ok |-> TRUE ]
    ELSE acc

\* the switch of parseValidateComment on one trimmed part; acc = [rules, ok]
ParsePart(acc, part) ==
    CASE part = <<>> -> acc
      [] part = sRequired ->
            [ rules |-> [ acc.rules EXCEPT !.Required = TRUE ], ok |-> TRUE ]
      [] HasPrefix(part, sMinEq) ->
            SetMin(acc, ParseFloat(TrimSpace(Drop(part, Len(sMinEq)))))
      [] HasPrefix(part, sMaxEq) ->
            SetMax(acc, ParseFloat(TrimSpace(Drop(part, Len(sMaxEq)))))
      [] HasPrefix(part, sOneofEq) ->
            SetOneOf(acc, FilterAlts(Split(Drop(part, Len(sOneofEq)), "|")))
      [] OTHER -> acc

\* the loop of parseValidateComment over parts, from index i
RECURSIVE ParseParts(_, _, _)
ParseParts(parts, i, acc) ==
    IF i > Len(parts) THEN acc
    ELSE ParseParts(parts, i + 1, ParsePart(acc, TrimSpace(parts[i])))

\* parseValidateComment from `body := ...` on
ParseBody(body) ==
    IF body = <<>> THEN [ rules |-> NoRules, ok |-> FALSE ]
    ELSE ParseParts(Split(body, ","), 1, [ rules |-> NoRules, ok |-> FALSE ])

\* parseValidateComment after the leading # is stripped
ParseStripped(comment) ==
    IF ~HasPrefix(comment, sValidate) THEN [ rules |-> NoRules, ok |-> FALSE ]
    ELSE ParseBody(TrimSpace(Drop(comment, Len(sValidate))))

\* `if strings.HasPrefix(comment, "#") { comment = strings.TrimSpace(comment[1:]) }`
StripHash(comment) ==
    IF HasPrefix(comment, << "#" >>) THEN TrimSpace(Drop(comment, 1)) ELSE comment

\* parseValidateComment: [rules, ok]
parseValidateComment(comment) ==
    IF TrimSpace(comment) = <<>> THEN [ rules |-> NoRules, ok |-> FALSE ]
    ELSE ParseStripped(StripHash(TrimSpace(comment)))

---------------------------------------------------------------------------
(* validate: the walk over the yaml.Node tree.                             *)

Node(kind, tag, value, lineComment, content) ==
    [ Kind |-> kind, Tag |-> tag, Value |-> value, LineComment |-> lineComment,
      Content |-> content ]

ScalarNode(tag, value, lineComment) == Node("scalar", tag, value, lineComment, <<>>)

MappingNode(lineComment, content) == Node("mapping", "!!map", <<>>, lineComment, content)

DocumentNode(content) == Node("document", "", <<>>, <<>>, content)

inferGoTypeFromNode(n) ==
    IF n.Kind # "scalar" THEN sAny
    ELSE CASE n.Tag = "!!bool"  -> sBool
           [] n.Tag = "!!int"   -> sInt
           [] n.Tag = "!!float" -> sFloat64
           [] OTHER             -> sString

\* yamlPath without the prefix
YamlPathOf_NoPrefix(yamlPathPrefix, key) == key

\* yamlPath of walkMappingValidations
YamlPathOf(yamlPathPrefix, key) ==
    IF yamlPathPrefix # <<>> THEN yamlPathPrefix \o << "." >> \o key ELSE key

\* goExpr of walkMappingValidations
GoExprOf(goExprPrefix, key) == goExprPrefix \o << "." >> \o toExportedName(key)

\* `if ok { vals = append(vals, fieldValidation{...}) }` for the parse p
EntryIf(p, goExpr, yamlPath, valNode) ==
    IF p.ok
    THEN << FieldValidation(goExpr, yamlPath, inferGoTypeFromNode(valNode),
                            p.rules.Required, p.rules.Min, p.rules.Max,
                            p.rules.OneOf) >>
    ELSE <<>>

RECURSIVE walkMappingValidations(_, _, _)
RECURSIVE walkPairs(_, _, _, _)

\* the loop of walkMappingValidations, from the pair at content[i], content[i+1]
walkPairs(content, i, yamlPathPrefix, goExprPrefix) ==
    IF i + 1 > Len(content) THEN <<>>
    ELSE EntryIf(parseValidateComment(content[i + 1].LineComment),
                 GoExprOf(goExprPrefix, content[i].Value),
                 YamlPathOf(yamlPathPrefix, content[i].Value),
                 content[i + 1])
         \o (IF content[i + 1].Kind = "mapping"
             THEN walkMappingValidations(content[i + 1],
                                         YamlPathOf(yamlPathPrefix, content[i].Value),
                                         GoExprOf(goExprPrefix, content[i].Value))
             ELSE <<>>)
         \o walkPairs(content, i + 2, yamlPathPrefix, goExprPrefix)

walkMappingValidations(node, yamlPathPrefix, goExprPrefix) ==
    IF node.Kind # "mapping" THEN <<>>
    ELSE walkPairs(node.Content, 1, yamlPathPrefix, goExprPrefix)

collectValidations(root) ==
    IF root.Kind = "document" /\ Len(root.Content) > 0
    THEN walkMappingValidations(root.Content[1], <<>>, << "c" >>)
    ELSE <<>>

---------------------------------------------------------------------------
(* validate: the inputs.  A comment is written from a list of tokens, so   *)
(* that what it says is known apart from the parser.                       *)

TokRequired == [ t |-> "required" ]

TokMin(n) == [ t |-> "min", n |-> n ]

TokMax(n) == [ t |-> "max", n |-> n ]

\* min=x: the number does not parse
TokMinBad == [ t |-> "minbad" ]

TokBogus == [ t |-> "bogus" ]

\* nothing between two commas
TokEmpty == [ t |-> "empty" ]

\* an alternative of a oneof token: its text (<<>>: empty) and whether it is
\* written with a space on each side
Alt(name, pad) == [ name |-> name, pad |-> pad ]

TokOneOf(alts) == [ t |-> "oneof", alts |-> alts ]

Tokens ==
    { TokRequired, TokMin(1), TokMax(65535), TokMinBad, TokBogus, TokEmpty,
      TokOneOf(<< Alt(<< "a" >>, FALSE), Alt(<< "b" >>, FALSE) >>),
      TokOneOf(<< Alt(<< "b" >>, TRUE), Alt(<<>>, TRUE), Alt(<< "a" >>, FALSE) >>),
      TokOneOf(<< Alt(<<>>, FALSE), Alt(<<>>, TRUE) >>) }

TokenLists == UNION { [ 1..n -> Tokens ] : n \in 0..MaxTokens }

\* "hash": `# validate:` and every token written with spaces around it;
\* "bare": `validate:` and no spaces; "other": a comment that is not a
\* validate: comment; "none": no comment
Styles == { "hash", "bare", "other", "none" }

\* the commented field: an integer or a string scalar at the top level, or
\* an integer scalar inside a section
FieldKinds == { "int", "str", "nested" }

Shapes ==
    { sh \in [ style : Styles, toks : TokenLists, field : FieldKinds ] :
         sh.style = "none" => sh.toks = <<>> }

Pad(sp) == IF sp THEN << " " >> ELSE <<>>

RenderAlt(a) == Pad(a.pad) \o a.name \o Pad(a.pad)

RenderToken(tok, sp) ==
    CASE tok.t = "required" -> sRequired
      [] tok.t = "min"      -> sMinEq \o Pad(sp) \o Itoa(tok.n)
      [] tok.t = "max"      -> sMaxEq \o Pad(sp) \o Itoa(tok.n)
      [] tok.t = "minbad"   -> sMinEq \o << "x" >>
      [] tok.t = "bogus"    -> << "b", "o", "g", "u", "s" >>
      [] tok.t = "empty"    -> <<>>
      [] tok.t = "oneof"    ->
            sOneofEq \o Join([ i \in 1..Len(tok.alts) |-> RenderAlt(tok.alts[i]) ],
                             << "|" >>)

RenderBody(toks, sp) ==
    Join([ i \in 1..Len(toks) |-> Pad(sp) \o RenderToken(toks[i], sp) \o Pad(sp) ],
         << "," >>)

\* the LineComment yaml.v3 reports for the field
RenderComment(sh) ==
    CASE sh.style = "hash"  -> << "#", " " >> \o sValidate \o RenderBody(sh.toks, TRUE)
      [] sh.style = "bare"  -> sValidate \o RenderBody(sh.toks, FALSE)
      [] sh.style = "other" -> << "#", " " >> \o RenderBody(sh.toks, FALSE)
      [] sh.style = "none"  -> <<>>

kPort == << "p", "o", "r", "t" >>

kServer == << "s", "e", "r", "v", "e", "r" >>

KeyNode(key) == ScalarNode("!!str", key, <<>>)

\* the document `port: <scalar>  # comment` or `server: { port: <scalar>  # comment }`
RenderDocument(sh) ==
    CASE sh.field = "int" ->
            DocumentNode(<< MappingNode(<<>>,
                << KeyNode(kPort), ScalarNode("!!int", << "1" >>, RenderComment(sh)) >>) >>)
      [] sh.field = "str" ->
            DocumentNode(<< MappingNode(<<>>,
                << KeyNode(kPort), ScalarNode("!!str", << "x" >>, RenderComment(sh)) >>) >>)
      [] sh.field = "nested" ->
            DocumentNode(<< MappingNode(<<>>,
                << KeyNode(kServer),
                   MappingNode(<<>>,
                       << KeyNode(kPort),
                          ScalarNode("!!int", << "1" >>, RenderComment(sh)) >>) >>) >>)

---------------------------------------------------------------------------
(* validate: collectValidations applied to a document.                     *)

InitValidate ==
    /\ pc = "val.start"
    /\ shape \in Shapes
    /\ ast = RenderDocument(shape)
    /\ vals = <<>>
    /\ GenIdle
    /\ ExpIdle
    /\ LoadIdle
    /\ RunIdle
    /\ CallIdle

\* validations = collectValidations(&root, rootName)
CollectValidations ==
    /\ pc = "val.start"
    /\ vals' = collectValidations(ast)
    /\ pc' = "val.done"
    /\ UNCHANGED <<shape, ast>>
    /\ UNCHANGED <<genVars, expVars, loadVars, runVars, call>>

NextValidate == CollectValidations

SpecValidate == InitValidate /\ [][NextValidate]_vars

---------------------------------------------------------------------------
(* validate: properties.                                                   *)

\* what the tokens of a comment say, read off the token list
NonEmptyAlt(a) == a.name # <<>>

AltNames(alts) ==
    [ i \in 1..Len(SelectSeq(alts, NonEmptyAlt)) |-> SelectSeq(alts, NonEmptyAlt)[i].name ]

Recognized(tok) ==
    \/ tok.t \in { "required", "min", "max" }
    \/ tok.t = "oneof" /\ AltNames(tok.alts) # <<>>

Last(I) == CHOOSE i \in I : \A j \in I : j <= i

SaidRequired(toks) == \E i \in 1..Len(toks) : toks[i].t = "required"

SaidBound(toks, t) ==
    IF \E i \in 1..Len(toks) : toks[i].t = t
    THEN << toks[Last({ i \in 1..Len(toks) : toks[i].t = t })].n >>
    ELSE <<>>

SaidOneOf(toks) ==
    IF \E i \in 1..Len(toks) : toks[i].t = "oneof" /\ Recognized(toks[i])
    THEN AltNames(toks[Last({ i \in 1..Len(toks) :
                                toks[i].t = "oneof" /\ Recognized(toks[i]) })].alts)
    ELSE <<>>

IsValidateComment == shape.style \in { "hash", "bare" }

\* the one entry the comment of the field must give
SaidEntry ==
    FieldValidation(
        IF shape.field = "nested"
        THEN << "c", "." >> \o toExportedName(kServer) \o << "." >> \o toExportedName(kPort)
        ELSE << "c", "." >> \o toExportedName(kPort),
        IF shape.field = "nested" THEN kServer \o << "." >> \o kPort ELSE kPort,
        IF shape.field = "str" THEN sString ELSE sInt,
        SaidRequired(shape.toks), SaidBound(shape.toks, "min"),
        SaidBound(shape.toks, "max"), SaidOneOf(shape.toks))

\* C6: a validate: comment made of recognized tokens only gives exactly one
\* FieldValidation for its field, however many tokens it has, and that
\* entry sets exactly what the tokens name.
C6_RecognizedTokens ==
    ( /\ pc = "val.done"
      /\ IsValidateComment
      /\ shape.toks # <<>>
      /\ \A i \in 1..Len(shape.toks) : Recognized(shape.toks[i]) )
    => vals = << SaidEntry >>

\* C6 witness: `validate:required,min=1,max=65535` on an integer field gave
\* one entry with required, min 1, max 65535 and no oneOf
C6_Witness ==
    /\ pc = "val.done"
    /\ shape.field = "int"
    /\ ast.Content[1].Content[2].LineComment
         = sValidate \o sRequired \o << ",", "m", "i", "n", "=", "1", ",",
                                       "m", "a", "x", "=", "6", "5", "5", "3", "5" >>
    /\ Len(vals) = 1
    /\ vals[1].Required /\ vals[1].Min = << 1 >> /\ vals[1].Max = << 65535 >>
    /\ vals[1].OneOf = <<>>

\* C7: the oneOf list of the entry is the non-empty alternatives of the
\* (last contributing) oneof token, trimmed, in the order written; a oneof
\* token whose alternatives are all empty contributes nothing: it leaves
\* oneOf as it was and does not make the comment give an entry.
C7_OneOf ==
    ( /\ pc = "val.done"
      /\ IsValidateComment
      /\ \E i \in 1..Len(shape.toks) : shape.toks[i].t = "oneof" )
    => /\ (\E i \in 1..Len(shape.toks) : Recognized(shape.toks[i]))
             => Len(vals) = 1 /\ vals[1].OneOf = SaidOneOf(shape.toks)
       /\ (\A i \in 1..Len(shape.toks) : ~Recognized(shape.toks[i]))
             => vals = <<>>

\* C7 witness: `oneof= b | |a` gave the list b, a
C7_Witness ==
    /\ pc = "val.done"
    /\ IsValidateComment
    /\ \E i \in 1..Len(shape.toks) :
          /\ shape.toks[i].t = "oneof"
          /\ Len(shape.toks[i].alts) = 3
    /\ Len(vals) = 1
    /\ vals[1].OneOf = << << "b" >>, << "a" >> >>

\* C8: a comment with no recognized token (no validate: prefix, an empty
\* body, unknown tokens, min=/max= with an unparsable number) gives no
\* entry; when such tokens are mixed with recognized ones the entry holds
\* what the recognized ones say and nothing else.
C8_Unrecognized ==
    pc = "val.done" =>
       IF IsValidateComment /\ \E i \in 1..Len(shape.toks) : Recognized(shape.toks[i])
       THEN vals = << SaidEntry >>
       ELSE vals = <<>>

\* C8 witness: `validate:min=x,bogus` gave nothing
C8_Witness ==
    /\ pc = "val.done"
    /\ shape.style = "bare"
    /\ shape.toks = << TokMinBad, TokBogus >>
    /\ vals = <<>>

---------------------------------------------------------------------------
(* expand: expandEnv, the replacement of ${VAR} and ${VAR:-default}.       *)

sMissingPrefix ==
    << "m", "i", "s", "s", "i", "n", "g", " ", "r", "e", "q", "u", "i", "r", "e", "d", " ", "e", "n", "v", " ", "v", "a", "r", "s", ":", " " >>

sCommaSpace == << ",", " " >>

sColonDash == << ":", "-" >>

\* a variable set to "" taken as unset, as a test of os.Getenv(name) != ""
LookupEnv_EmptyIsUnset(name) ==
    IF name \in DOMAIN env /\ env[name] # << <<>> >> THEN env[name] ELSE <<>>

\* os.LookupEnv: <<>> when the variable is unset, << value >> when it is set
LookupEnv(name) == IF name \in DOMAIN env THEN env[name] ELSE <<>>

\* the index of the first "}" of s at or after k, 0 when there is none
RECURSIVE FirstClose(_, _)
FirstClose(s, k) ==
    IF k > Len(s) THEN 0
    ELSE IF s[k] = "}" THEN k
    ELSE FirstClose(s, k + 1)

\* rePlaceholder matches at j: "${", one character or more that is not "}",
\* then "}"
rePlaceholder(s, j) ==
    /\ j + 2 <= Len(s)
    /\ s[j] = "$" /\ s[j + 1] = "{"
    /\ s[j + 2] # "}"
    /\ FirstClose(s, j + 2) # 0

\* name and def of the callback: inner cut at the first ":-"; def is <<>>
\* for nil
Placeholder(inner, idx) ==
    IF idx # -1
    THEN [ name |-> SubSeq(inner, 1, idx), def |-> << Drop(inner, idx + 2) >> ]
    ELSE [ name |-> inner, def |-> <<>> ]

\* what the callback returns for a placeholder
Replacement(ph) ==
    IF LookupEnv(ph.name) # <<>> THEN LookupEnv(ph.name)[1]
    ELSE IF ph.def # <<>> THEN ph.def[1]
    ELSE <<>>

\* only the first missing name kept
RecordMissing_FirstOnly(strictMode, missing, name) ==
    IF strictMode /\ missing = <<>> THEN Append(missing, name) ELSE missing

\* the missing name recorded whatever the mode
RecordMissing_Always(strictMode, missing, name) == Append(missing, name)

\* `if strict { missing = append(missing, name) }`
RecordMissing(strictMode, missing, name) ==
    IF strictMode THEN Append(missing, name) ELSE missing

\* the default not looked at when the name is recorded
MissingAfter_IgnoreDefault(strictMode, missing, ph) ==
    IF LookupEnv(ph.name) = <<>>
    THEN RecordMissing(strictMode, missing, ph.name)
    ELSE missing

\* missing after the callback ran on a placeholder
MissingAfter(strictMode, missing, ph) ==
    IF LookupEnv(ph.name) = <<>> /\ ph.def = <<>>
    THEN RecordMissing(strictMode, missing, ph.name)
    ELSE missing

\* ReplaceAllStringFunc from position j: matches taken leftmost first, not
\* overlapping; the text between them copied
RECURSIVE Replace(_, _, _, _, _)
RECURSIVE ReplaceMatch(_, _, _, _, _, _)

ReplaceMatch(s, close, ph, strictMode, acc, missing) ==
    Replace(s, close + 1, strictMode, acc \o Replacement(ph),
            MissingAfter(strictMode, missing, ph))

Replace(s, j, strictMode, acc, missing) ==
    IF j > Len(s) THEN [ out |-> acc, missing |-> missing ]
    ELSE IF rePlaceholder(s, j)
    THEN ReplaceMatch(s, FirstClose(s, j + 2),
                      Placeholder(SubSeq(s, j + 2, FirstClose(s, j + 2) - 1),
                                  Index(SubSeq(s, j + 2, FirstClose(s, j + 2) - 1),
                                        sColonDash)),
                      strictMode, acc, missing)
    ELSE Replace(s, j + 1, strictMode, Append(acc, s[j]), missing)

\* the end of expandEnv: err is <<>> for nil, << message >> otherwise
Expanded(r) ==
    IF Len(r.missing) > 0
    THEN [ out |-> <<>>,
           err |-> << sMissingPrefix \o Join(r.missing, sCommaSpace) >> ]
    ELSE [ out |-> r.out, err |-> <<>> ]

expandEnv(s, strictMode) == Expanded(Replace(s, 1, strictMode, <<>>, <<>>))

---------------------------------------------------------------------------
(* expand: the inputs.  A text is written from pieces, so that the         *)
(* placeholders it holds are known apart from the scan.                    *)

vA == << "A" >>

vB == << "B" >>

EnvNames == { vA, vB }

\* ${name}
Ph(name) == [ kind |-> "ph", name |-> name, def |-> <<>> ]

\* ${name:-def}
PhDef(name, def) == [ kind |-> "phd", name |-> name, def |-> def ]

\* text that is copied, or an unfinished placeholder
Lit(t) == [ kind |-> "lit", name |-> t, def |-> <<>> ]

sOpen == << "$", "{" >>

Pieces ==
    { Ph(vA), Ph(vB), PhDef(vA, << "d" >>), PhDef(vB, <<>>),
      Lit(<< "x" >>), Lit(<< "}" >>), Lit(sOpen), Lit(<< "$", "{", "}" >>) }

PieceLists == UNION { [ 1..n -> Pieces ] : n \in 0..MaxPieces }

RenderPiece(p) ==
    CASE p.kind = "ph"  -> sOpen \o p.name \o << "}" >>
      [] p.kind = "phd" -> sOpen \o p.name \o sColonDash \o p.def \o << "}" >>
      [] p.kind = "lit" -> p.name

RenderText(ps) == Join([ i \in 1..Len(ps) |-> RenderPiece(ps[i]) ], <<>>)

\* A and B each unset, set to "" or set to "v"
Environments == [ EnvNames -> { <<>>, << <<>> >>, << << "v" >> >> } ]

---------------------------------------------------------------------------
(* expand: Load's options, then expandEnv on the text of the file.         *)

\* defaultLoader: strict is false
InitExpand ==
    /\ pc = "load.opts"
    /\ pieces \in PieceLists
    /\ text = RenderText(pieces)
    /\ env \in Environments
    /\ strict = FALSE
    /\ expanded = <<>>
    /\ GenIdle
    /\ ValIdle
    /\ LoadIdle
    /\ RunIdle
    /\ CallIdle

\* the option WithStrict applied to the loader
WithStrict ==
    /\ pc = "load.opts"
    /\ strict' = TRUE
    /\ UNCHANGED <<pc, pieces, text, env, expanded>>
    /\ UNCHANGED <<genVars, valVars, loadVars, runVars, call>>

\* `expanded, err := expandEnv(string(raw), l.strict)`
ExpandEnv ==
    /\ pc = "load.opts"
    /\ expanded' = expandEnv(text, strict)
    /\ pc' = "exp.done"
    /\ UNCHANGED <<pieces, text, env, strict>>
    /\ UNCHANGED <<genVars, valVars, loadVars, runVars, call>>

NextExpand == WithStrict \/ ExpandEnv

SpecExpand == InitExpand /\ [][NextExpand]_vars

---------------------------------------------------------------------------
(* expand: properties.                                                     *)

\* no piece leaves a placeholder open, so the placeholders of the text are
\* its "ph" and "phd" pieces
Closed(ps) == \A i \in 1..Len(ps) : ps[i] # Lit(sOpen)

Unset(p) == p.kind = "ph" /\ env[p.name] = <<>>

\* the names of the placeholders with no value and no default, as written
SaidMissing(ps) ==
    [ i \in 1..Len(SelectSeq(ps, Unset)) |-> SelectSeq(ps, Unset)[i].name ]

\* what a piece stands for when nothing is reported missing
SaidPiece(p) ==
    CASE p.kind = "lit" -> p.name
      [] p.kind = "ph"  -> IF env[p.name] # <<>> THEN env[p.name][1] ELSE <<>>
      [] p.kind = "phd" -> IF env[p.name] # <<>> THEN env[p.name][1] ELSE p.def

SaidText(ps) == Join([ i \in 1..Len(ps) |-> SaidPiece(ps[i]) ], <<>>)

\* C9: in strict mode, when a placeholder of the text names an unset
\* variable and has no default, expandEnv returns one error whose message
\* lists every such name in the order of occurrence, and an empty output;
\* whatever the text, an error always comes with an empty output.
C9_StrictMissing ==
    (pc = "exp.done" /\ strict) =>
       /\ expanded.err # <<>> => expanded.out = <<>>
       /\ (Closed(pieces) /\ SaidMissing(pieces) # <<>>) =>
             /\ expanded.err
                  = << sMissingPrefix \o Join(SaidMissing(pieces), sCommaSpace) >>
             /\ expanded.out = <<>>

\* C9 witness: a text with ${A} and ${B}, both unset, gave the error that
\* lists two names
C9_Witness ==
    /\ pc = "exp.done" /\ strict
    /\ Closed(pieces)
    /\ Len(SaidMissing(pieces)) >= 2
    /\ \E i, j \in 1..Len(pieces) : i < j /\ pieces[i] = Ph(vB) /\ pieces[j] = Ph(vA)
    /\ expanded.out = <<>>
    /\ expanded.err # <<>>
    /\ HasPrefix(expanded.err[1], sMissingPrefix \o vB \o sCommaSpace \o vA)

\* C10: in non-strict mode expandEnv returns no error, whatever the text and
\* the environment, and a placeholder whose variable is unset and that has
\* no default is replaced by the empty string.
C10_NonStrict ==
    (pc = "exp.done" /\ ~strict) =>
       /\ expanded.err = <<>>
       /\ Closed(pieces) => expanded.out = SaidText(pieces)

\* C10 witness: a text with ${A}, A unset, expanded without error and the
\* placeholder left nothing
C10_Witness ==
    /\ pc = "exp.done" /\ ~strict
    /\ env[vA] = <<>>
    /\ pieces = << Lit(<< "x" >>), Ph(vA), Lit(<< "x" >>) >>
    /\ expanded = [ out |-> << "x", "x" >>, err |-> <<>> ]

\* the placeholders of the text all carry a default
AllDefaulted(ps) == \A i \in 1..Len(ps) : ps[i].kind # "ph"

\* C11: ${NAME:-default} with NAME unset is replaced by the default, the
\* empty default included, in strict and in non-strict mode, and is never
\* recorded as missing: an error lists the placeholders without default
\* only, and a text whose placeholders all carry a default expands without
\* error in either mode.
C11_DefaultUsed ==
    (pc = "exp.done" /\ Closed(pieces)) =>
       /\ SaidMissing(pieces) = <<>> =>
             expanded = [ out |-> SaidText(pieces), err |-> <<>> ]
       /\ expanded.err # <<>> =>
             expanded.err[1] = sMissingPrefix \o Join(SaidMissing(pieces), sCommaSpace)

\* C11 witness: strict mode, ${A:-d} and ${B:-} with A and B unset gave
\* the defaults and no error
C11_Witness ==
    /\ pc = "exp.done" /\ strict
    /\ env[vA] = <<>> /\ env[vB] = <<>>
    /\ pieces = << PhDef(vA, << "d" >>), Lit(<< "x" >>), PhDef(vB, <<>>) >>
    /\ AllDefaulted(pieces)
    /\ expanded = [ out |-> << "d", "x" >>, err |-> <<>> ]

---------------------------------------------------------------------------
(* load: Load, from the options to the returned (T, error) pair.           *)

\* the options, as values
OptStrict == [ kind |-> "strict", path |-> "" ]

OptDotenv(path) == [ kind |-> "dotenv", path |-> path ]

OptConfigFile(path) == [ kind |-> "config", path |-> path ]

\* `l.dotenvs = append(l.dotenvs, path)`, here putting the path in front
WithDotenv_Prepend(ds, path) == << path >> \o ds

\* `l.dotenvs = append(l.dotenvs, path)`
WithDotenv(ds, path) == Append(ds, path)

\* `l.configFile = path`
WithConfigFile(cf, path) == path

\* the files: absent, unreadable or malformed, a .env file that sets A, a
\* YAML text
FileMissing == [ state |-> "missing", value |-> <<>> ]

FileBad == [ state |-> "bad", value |-> <<>> ]

FileEnv(v) == [ state |-> "env", value |-> v ]

FileYaml(t) == [ state |-> "yaml", value |-> t ]

\* every error but a missing file stops Load, the missing file too
DotenvFails_AnyError(f) == f.state # "env"

\* `if err := loadDotenv(path); err != nil { if !os.IsNotExist(err) {`
DotenvFails(f) == f.state = "bad"

\* godotenv.Overload: the variables of the file set, over what was there
Overload(e, f) ==
    IF f.state = "env" THEN [ e EXCEPT ![vA] = << f.value >> ] ELSE e

\* the (T, error) pairs Load returns; cfg "zero" is the zero value of T
Failed(msg) == [ cfg |-> "zero", err |-> << msg >> ]

Loaded(c) == [ cfg |-> c, err |-> <<>> ]

\* where Load goes after the options: the dotenv loop, or past it
AfterOptions(ds) == IF ds = <<>> THEN "ld.read" ELSE "ld.dotenv"

Call(step, path) == [ step |-> step, path |-> path ]

---------------------------------------------------------------------------
(* load: the inputs.                                                       *)

DotenvPaths == { "a.env", "b.env" }

DefaultConfig == "config.yaml"

AltConfig == "alt.yaml"

Options == { OptStrict, OptDotenv("a.env"), OptDotenv("b.env"), OptConfigFile(AltConfig) }

OptionLists == UNION { [ 1..n -> Options ] : n \in 0..MaxOpts }

\* the texts of the config files: ${A} and ${A:-d}
YamlTexts == { RenderText(<< Ph(vA) >>), RenderText(<< PhDef(vA, << "d" >>) >>) }

FileSystems ==
    { fs \in [ DotenvPaths \cup { DefaultConfig, AltConfig } ->
                 { FileMissing, FileBad, FileEnv(<< "v" >>), FileEnv(<< "w" >>) }
                 \cup { FileYaml(t) : t \in YamlTexts } ] :
        /\ fs["a.env"] \in { FileMissing, FileBad, FileEnv(<< "v" >>) }
        /\ fs["b.env"] \in { FileMissing, FileEnv(<< "w" >>) }
        /\ fs[DefaultConfig] \in { FileMissing } \cup { FileYaml(t) : t \in YamlTexts }
        /\ fs[AltConfig] \in { FileMissing, FileYaml(RenderText(<< Ph(vA) >>)) } }

\* how T takes the expanded text: it does not decode, it decodes and T has
\* no Validate method, it decodes and Validate returns nil, or an error
Targets == { "badyaml", "plain", "valid", "invalid" }

---------------------------------------------------------------------------
(* load: the steps of Load.                                                *)

\* defaultLoader, and the range over opts about to start
InitLoad ==
    /\ loadOpts \in OptionLists
    /\ files \in FileSystems
    /\ target \in Targets
    /\ pc = IF loadOpts = <<>> THEN AfterOptions(<<>>) ELSE "ld.opts"
    /\ oi = 1
    /\ configFile = DefaultConfig
    /\ dotenvs = <<>>
    /\ strict = FALSE
    /\ di = 1
    /\ env = [ n \in EnvNames |-> <<>> ]
    /\ pieces = <<>> /\ text = <<>> /\ expanded = <<>>
    /\ cfg = "zero"
    /\ calls = <<>>
    /\ ret = <<>>
    /\ GenIdle
    /\ ValIdle
    /\ RunIdle
    /\ CallIdle

\* `for _, opt := range opts { opt(l) }`, one option
ApplyOption ==
    /\ pc = "ld.opts"
    /\ oi <= Len(loadOpts)
    /\ dotenvs' = IF loadOpts[oi].kind = "dotenv"
                  THEN WithDotenv(dotenvs, loadOpts[oi].path) ELSE dotenvs
    /\ configFile' = IF loadOpts[oi].kind = "config"
                     THEN WithConfigFile(configFile, loadOpts[oi].path) ELSE configFile
    /\ strict' = (strict \/ loadOpts[oi].kind = "strict")
    /\ oi' = oi + 1
    /\ pc' = IF oi = Len(loadOpts) THEN AfterOptions(dotenvs') ELSE "ld.opts"
    /\ UNCHANGED <<loadOpts, di, files, target, cfg, calls, ret>>
    /\ UNCHANGED <<pieces, text, env, expanded>>
    /\ UNCHANGED <<genVars, valVars, runVars, call>>

\* 1. one turn of the loop over l.dotenvs
LoadDotenv ==
    /\ pc = "ld.dotenv"
    /\ di <= Len(dotenvs)
    /\ calls' = Append(calls, Call("dotenv", dotenvs[di]))
    /\ env' = Overload(env, files[dotenvs[di]])
    /\ di' = di + 1
    /\ IF DotenvFails(files[dotenvs[di]])
       THEN ret' = Failed("load dotenv") /\ pc' = "ld.done"
       ELSE ret' = ret /\ pc' = IF di = Len(dotenvs) THEN "ld.read" ELSE "ld.dotenv"
    /\ UNCHANGED <<loadOpts, oi, configFile, dotenvs, files, target, cfg>>
    /\ UNCHANGED <<pieces, text, strict, expanded>>
    /\ UNCHANGED <<genVars, valVars, runVars, call>>

\* 2. os.ReadFile(l.configFile)
ReadFile ==
    /\ pc = "ld.read"
    /\ calls' = Append(calls, Call("read", configFile))
    /\ IF files[configFile].state = "yaml"
       THEN text' = files[configFile].value /\ ret' = ret /\ pc' = "ld.expand"
       ELSE text' = text /\ ret' = Failed("read config file") /\ pc' = "ld.done"
    /\ UNCHANGED <<loadOpts, oi, configFile, dotenvs, di, files, target, cfg>>
    /\ UNCHANGED <<pieces, env, strict, expanded>>
    /\ UNCHANGED <<genVars, valVars, runVars, call>>

\* 3. expandEnv(string(raw), l.strict)
ExpandConfig ==
    /\ pc = "ld.expand"
    /\ calls' = Append(calls, Call("expand", ""))
    /\ expanded' = expandEnv(text, strict)
    /\ IF expanded'.err # <<>>
       THEN ret' = Failed("expand env in config") /\ pc' = "ld.done"
       ELSE ret' = ret /\ pc' = "ld.unmarshal"
    /\ UNCHANGED <<loadOpts, oi, configFile, dotenvs, di, files, target, cfg>>
    /\ UNCHANGED <<pieces, text, env, strict>>
    /\ UNCHANGED <<genVars, valVars, runVars, call>>

\* 4. yaml.Unmarshal([]byte(expanded), &cfg); a failed decode may leave
\* some fields of cfg set
Unmarshal ==
    /\ pc = "ld.unmarshal"
    /\ calls' = Append(calls, Call("unmarshal", ""))
    /\ IF target = "badyaml"
       THEN /\ cfg' \in { "zero", "partial" }
            /\ ret' = Failed("unmarshal config yaml") /\ pc' = "ld.done"
       ELSE cfg' = "full" /\ ret' = ret /\ pc' = "ld.validate"
    /\ UNCHANGED <<loadOpts, oi, configFile, dotenvs, di, files, target>>
    /\ UNCHANGED <<pieces, text, env, strict, expanded>>
    /\ UNCHANGED <<genVars, valVars, runVars, call>>

\* 5. cfg has a Validate method: it is called
Validate ==
    /\ pc = "ld.validate"
    /\ target \in { "valid", "invalid" }
    /\ calls' = Append(calls, Call("validate", ""))
    /\ ret' = IF target = "invalid" THEN Failed("config validation failed")
              ELSE Loaded(cfg)
    /\ pc' = "ld.done"
    /\ UNCHANGED <<loadOpts, oi, configFile, dotenvs, di, files, target, cfg>>
    /\ UNCHANGED <<pieces, text, env, strict, expanded>>
    /\ UNCHANGED <<genVars, valVars, runVars, call>>

\* cfg has no Validate method: `return cfg, nil`
ReturnConfig ==
    /\ pc = "ld.validate"
    /\ target = "plain"
    /\ ret' = Loaded(cfg)
    /\ pc' = "ld.done"
    /\ UNCHANGED <<loadOpts, oi, configFile, dotenvs, di, files, target, cfg, calls>>
    /\ UNCHANGED <<pieces, text, env, strict, expanded>>
    /\ UNCHANGED <<genVars, valVars, runVars, call>>

NextLoad ==
    \/ ApplyOption
    \/ LoadDotenv
    \/ ReadFile
    \/ ExpandConfig
    \/ Unmarshal
    \/ Validate
    \/ ReturnConfig

SpecLoad == InitLoad /\ [][NextLoad]_vars

---------------------------------------------------------------------------
(* load: properties.                                                       *)

IsDotenvOption(o) == o.kind = "dotenv"

\* the paths given with WithDotenv, in the order of the options
SaidDotenvs(os) ==
    [ i \in 1..Len(SelectSeq(os, IsDotenvOption)) |-> SelectSeq(os, IsDotenvOption)[i].path ]

StepRank(step) ==
    CASE step = "dotenv"    -> 1
      [] step = "read"      -> 2
      [] step = "expand"    -> 3
      [] step = "unmarshal" -> 4
      [] step = "validate"  -> 5

Made(step) == \E i \in 1..Len(calls) : calls[i].step = step

DotenvCalls == SelectSeq(calls, LAMBDA c : c.step = "dotenv")

\* the step an error of Load comes from
ErrStep(msg) ==
    CASE msg = "load dotenv"              -> "dotenv"
      [] msg = "read config file"         -> "read"
      [] msg = "expand env in config"     -> "expand"
      [] msg = "unmarshal config yaml"    -> "unmarshal"
      [] msg = "config validation failed" -> "validate"

\* the call at position i failed
CallFailed(i) ==
    CASE calls[i].step = "dotenv"    -> files[calls[i].path].state = "bad"
      [] calls[i].step = "read"      -> files[calls[i].path].state # "yaml"
      [] calls[i].step = "expand"    -> expanded.err # <<>>
      [] calls[i].step = "unmarshal" -> target = "badyaml"
      [] calls[i].step = "validate"  -> target = "invalid"

\* C12: Load makes its calls in the order dotenv files (as given by the
\* options), read, expand, unmarshal, Validate, each of the last four at
\* most once and only after the one before it succeeded; a failed call is
\* the last call; Validate is called only on a decoded config; on an error
\* Load returns the zero value of T, and a config only when every step
\* succeeded.
C12_LoadOrder ==
    /\ \A i, j \in 1..Len(calls) :
          i < j => /\ StepRank(calls[i].step) <= StepRank(calls[j].step)
                   /\ StepRank(calls[i].step) = StepRank(calls[j].step)
                         => calls[i].step = "dotenv"
    /\ Len(DotenvCalls) <= Len(SaidDotenvs(loadOpts))
    /\ \A i \in 1..Len(DotenvCalls) : DotenvCalls[i].path = SaidDotenvs(loadOpts)[i]
    /\ Made("read") => Len(DotenvCalls) = Len(SaidDotenvs(loadOpts))
    /\ Made("expand") => Made("read")
    /\ Made("unmarshal") => Made("expand")
    /\ Made("validate") => Made("unmarshal") /\ cfg = "full"
    /\ \A i \in 1..Len(calls) : CallFailed(i) => i = Len(calls)
    /\ pc = "ld.done" =>
          IF ret.err # <<>>
          THEN /\ ret.cfg = "zero"
               /\ calls # <<>>
               /\ calls[Len(calls)].step = ErrStep(ret.err[1])
               /\ CallFailed(Len(calls))
          ELSE /\ ret.cfg = "full"
               /\ Made("unmarshal")
               /\ Made("validate") <=> target # "plain"
               /\ \A i \in 1..Len(calls) : ~CallFailed(i)

\* C12 witness: two dotenv files, then read, expand, unmarshal and a
\* Validate that failed: the zero value returned though cfg was decoded
C12_Witness ==
    /\ pc = "ld.done"
    /\ Len(calls) = 6
    /\ calls[1] = Call("dotenv", "b.env") /\ calls[2] = Call("dotenv", "a.env")
    /\ calls[6].step = "validate"
    /\ cfg = "full"
    /\ ret = Failed("config validation failed")

\* the positions of l.dotenvs whose file is a readable .env file
EnvFileAt == { i \in 1..Len(dotenvs) : files[dotenvs[i]].state = "env" }

\* C13: a dotenv path whose file does not exist never makes Load fail: it
\* is skipped, the dotenv files after it are still loaded and the config
\* file is read; a dotenv file that fails in another way makes Load return
\* an error before the config file is read.
C13_DotenvMissing ==
    /\ \A i \in 1..Len(calls) :
          (calls[i].step = "dotenv" /\ files[calls[i].path].state = "missing")
             => (i = Len(calls) => (pc = "ld.done" => ret.err # << "load dotenv" >>))
    /\ (pc = "ld.done" /\ \A i \in 1..Len(dotenvs) : files[dotenvs[i]].state # "bad")
          => /\ ret.err # << "load dotenv" >>
             /\ Len(DotenvCalls) = Len(dotenvs)
             /\ Made("read")
             /\ EnvFileAt # {} => env[vA] = << files[dotenvs[Last(EnvFileAt)]].value >>
    /\ (pc = "ld.done" /\ \E i \in 1..Len(dotenvs) : files[dotenvs[i]].state = "bad")
          => /\ ret = Failed("load dotenv")
             /\ ~Made("read")
             /\ files[calls[Len(calls)].path].state = "bad"

\* C13 witness: a.env does not exist, b.env after it was loaded, the config
\* file was read and Load returned a config
C13_Witness ==
    /\ pc = "ld.done"
    /\ dotenvs = << "a.env", "b.env" >>
    /\ files["a.env"] = FileMissing
    /\ files["b.env"] = FileEnv(<< "w" >>)
    /\ env[vA] = << << "w" >> >>
    /\ Made("read")
    /\ ret = Loaded("full")

---------------------------------------------------------------------------
(* gen-go: properties of the emitted text.                                 *)

\* the positions of the lines of one kind in a text
LinesOf(txt, kind) == { i \in 1..Len(txt) : txt[i].kind = kind }

ImportsFmt(txt) == \E i \in LinesOf(txt, "import") : txt[i].name = sFmt

\* C14: the text generateGoCode returns holds the Validate method of the
\* root type, once, and the import of fmt exactly when the validation list
\* is not empty; with an empty list it holds neither.
C14_ValidateAndImport ==
    pc = "gen.done" =>
       \A r \in 1..2 :
          /\ validations # <<>> =>
                /\ Cardinality(LinesOf(result[r], "func")) = 1
                /\ \A i \in LinesOf(result[r], "func") : result[r][i].name = rootName
                /\ ImportsFmt(result[r])
                /\ Cardinality(LinesOf(result[r], "import")) = 1
          /\ validations = <<>> =>
                /\ LinesOf(result[r], "func") = {}
                /\ LinesOf(result[r], "check") = {}
                /\ LinesOf(result[r], "import") = {}

\* C14 witness: a call with one validation returned a text with the import
\* of fmt and the Validate method
C14_Witness ==
    /\ pc = "gen.done"
    /\ validations = << AppNameRequired >>
    /\ ImportsFmt(result[1])
    /\ LinesOf(result[1], "func") # {}
    /\ LinesOf(result[1], "check") # {}

\* the names of the type declarations of a text, in the order written
DeclaredNames(txt) ==
    [ i \in 1..Len(SelectSeq(txt, LAMBDA l : l.kind = "type")) |->
        SelectSeq(txt, LAMBDA l : l.kind = "type")[i].name ]

\* C15: the returned text declares every registered type definition once,
\* in increasing byte order of the type names whatever order the registry's
\* map gives them in, and the root type is declared after all of them.
C15_DeclarationOrder ==
    pc = "gen.done" =>
       \A r \in 1..2 :
          /\ Len(DeclaredNames(result[r])) = Cardinality(DOMAIN reg.defsByType) + 1
          /\ DeclaredNames(result[r])[Len(DeclaredNames(result[r]))] = rootName
          /\ \A i \in 1..(Len(DeclaredNames(result[r])) - 1) :
                DeclaredNames(result[r])[i] \in DOMAIN reg.defsByType
          /\ \A i, j \in 1..(Len(DeclaredNames(result[r])) - 1) :
                i < j => StrLess(DeclaredNames(result[r])[i], DeclaredNames(result[r])[j])

\* C15 witness: the section a was registered before its section a.b, and
\* the text declares ABConfig, then AConfig, then the root type
C15_Witness ==
    /\ pc = "gen.done"
    /\ rootName = sConfig
    /\ DOMAIN doc = { kA }
    /\ DeclaredNames(result[1])
         = << << "A", "B" >> \o sConfig, << "A" >> \o sConfig, sConfig >>

---------------------------------------------------------------------------
(* validate: the kinds of rule an entry may hold.                          *)

\* C16: collectValidations gives an entry only rules its field's kind
\* supports: min and max on a numeric field only, oneOf on a string field
\* only; a rule of another kind is dropped and makes no entry.
C16_SupportedKindsOnly ==
    pc = "val.done" =>
       \A i \in 1..Len(vals) :
          /\ (vals[i].Min # <<>> \/ vals[i].Max # <<>>) => IsNumeric(vals[i].GoType)
          /\ vals[i].OneOf # <<>> => vals[i].GoType = sString

---------------------------------------------------------------------------
(* run: the emitted Validate method, called on a config value.             *)

\* the condition of an emitted `if` (or the default arm of an emitted
\* switch) on the config c
CheckFails(check, c) ==
    CASE check.cond = "required ==\"\"" -> c[check.expr] = <<>>
      [] check.cond = "required ==0"    -> c[check.expr] = 0
      [] check.cond = "min <"           -> c[check.expr] < check.arg[1]
      [] check.cond = "max >"           -> c[check.expr] > check.arg[1]
      [] check.cond = "oneof"           ->
            \A i \in 1..Len(check.arg) : check.arg[i] # c[check.expr]

\* the fmt.Errorf of an emitted check
ErrorOf(check) ==
    [ path |-> check.path,
      what |-> CASE check.cond \in { "required ==\"\"", "required ==0" } -> "is required"
                 [] check.cond = "min <" -> "must be >="
                 [] check.cond = "max >" -> "must be <="
                 [] check.cond = "oneof" -> "must be one of",
      arg  |-> check.arg ]

---------------------------------------------------------------------------
(* run: the inputs.                                                        *)

xPort == << "c", ".", "S", "e", "r", "v", "e", "r", ".", "P", "o", "r", "t" >>

pPort == << "s", "e", "r", "v", "e", "r", ".", "p", "o", "r", "t" >>

xLevel == << "c", ".", "L", "e", "v", "e", "l" >>

pLevel == << "l", "e", "v", "e", "l" >>

LowBound == 1

HighBound == 10

Levels == << << "a" >>, << "b" >> >>

\* entries on the int field server.port and on the string field level; the
\* last one is a min rule on the string field
RunEntries ==
    { FieldValidation(xPort, pPort, sInt, r, mn, mx, <<>>) :
         r \in BOOLEAN, mn \in { <<>>, << LowBound >> }, mx \in { <<>>, << HighBound >> } }
    \cup { FieldValidation(xLevel, pLevel, sString, r, <<>>, <<>>, oo) :
         r \in BOOLEAN, oo \in { <<>>, Levels } }
    \cup { FieldValidation(xLevel, pLevel, sString, FALSE, << LowBound >>, <<>>, <<>>) }

RunValidationLists ==
    UNION { [ 1..n -> { e \in RunEntries :
                          e.Required \/ e.Min # <<>> \/ e.Max # <<>> \/ e.OneOf # <<>> } ]
            : n \in 1..MaxVals }

\* the config values: port 0, inside the bounds, above them; level empty,
\* listed, not listed
Configs ==
    { (xPort :> port) @@ (xLevel :> level) :
         port \in { 0, LowBound + 1, HighBound + 1 },
         level \in { <<>>, << "a" >>, << "z" >> } }

---------------------------------------------------------------------------
(* run: writeValidateMethod, then the method it wrote run line by line.    *)

InitRun ==
    /\ pc = "run.emit"
    /\ rootName = sConfig
    /\ validations \in RunValidationLists
    /\ conf \in Configs
    /\ out = <<>>
    /\ mi = 0
    /\ checked = <<>>
    /\ verr = <<>>
    /\ run = 0 /\ doc = <<>> /\ reg = NoRegistry /\ typeNames = <<>> /\ ti = 0
    /\ result = << <<>>, <<>> >>
    /\ ValIdle
    /\ ExpIdle
    /\ LoadIdle
    /\ CallIdle

\* writeValidateMethod(&b, rootName, validations)
EmitValidate ==
    /\ pc = "run.emit"
    /\ out' = writeValidateMethod(rootName, validations)
    /\ mi' = 2
    /\ pc' = "run.body"
    /\ UNCHANGED <<run, rootName, doc, validations, reg, typeNames, ti, result>>
    /\ UNCHANGED <<conf, checked, verr>>
    /\ UNCHANGED <<valVars, expVars, loadVars, call>>

\* one emitted check: `return fmt.Errorf(...)` when its condition holds,
\* the next line otherwise
RunCheck ==
    /\ pc = "run.body"
    /\ out[mi].kind = "check"
    /\ checked' = Append(checked, mi)
    /\ IF CheckFails(out[mi], conf)
       THEN verr' = << ErrorOf(out[mi]) >> /\ pc' = "run.done" /\ mi' = mi
       ELSE verr' = verr /\ pc' = pc /\ mi' = mi + 1
    /\ UNCHANGED <<genVars, conf>>
    /\ UNCHANGED <<valVars, expVars, loadVars, call>>

\* the emitted `return nil`
RunReturnNil ==
    /\ pc = "run.body"
    /\ out[mi].kind = "return nil"
    /\ verr' = <<>>
    /\ pc' = "run.done"
    /\ UNCHANGED <<genVars, conf, mi, checked>>
    /\ UNCHANGED <<valVars, expVars, loadVars, call>>

NextRun == EmitValidate \/ RunCheck \/ RunReturnNil

SpecRun == InitRun /\ [][NextRun]_vars

---------------------------------------------------------------------------
(* run: properties.                                                        *)

RuleKinds == << "required", "min", "max", "oneof" >>

\* entry v holds a rule of kind k that its field's kind supports
Present(v, k) ==
    CASE k = "required" -> v.Required /\ (v.GoType = sString \/ IsNumeric(v.GoType))
      [] k = "min"      -> v.Min # <<>> /\ IsNumeric(v.GoType)
      [] k = "max"      -> v.Max # <<>> /\ IsNumeric(v.GoType)
      [] k = "oneof"    -> v.OneOf # <<>> /\ v.GoType = sString

\* the config breaks the rule of kind k of entry v
Broken(v, k) ==
    CASE k = "required" -> conf[v.GoExpr] = (IF v.GoType = sString THEN <<>> ELSE 0)
      [] k = "min"      -> conf[v.GoExpr] < v.Min[1]
      [] k = "max"      -> conf[v.GoExpr] > v.Max[1]
      [] k = "oneof"    -> conf[v.GoExpr] \notin { v.OneOf[j] : j \in 1..Len(v.OneOf) }

\* entry i, rule kind number k: the rules in the order they are to be checked
RulePairs ==
    { f \in (1..Len(validations)) \X (1..Len(RuleKinds)) :
         Present(validations[f[1]], RuleKinds[f[2]]) }

Earlier(f, g) == f[1] < g[1] \/ (f[1] = g[1] /\ f[2] <= g[2])

Failures == { f \in RulePairs : Broken(validations[f[1]], RuleKinds[f[2]]) }

FirstFailure == CHOOSE f \in Failures : \A g \in Failures : Earlier(f, g)

SaidError(f) ==
    [ path |-> validations[f[1]].YAMLPath,
      what |-> CASE RuleKinds[f[2]] = "required" -> "is required"
                 [] RuleKinds[f[2]] = "min"      -> "must be >="
                 [] RuleKinds[f[2]] = "max"      -> "must be <="
                 [] RuleKinds[f[2]] = "oneof"    -> "must be one of",
      arg  |-> CASE RuleKinds[f[2]] = "required" -> <<>>
                 [] RuleKinds[f[2]] = "min"      -> validations[f[1]].Min
                 [] RuleKinds[f[2]] = "max"      -> validations[f[1]].Max
                 [] RuleKinds[f[2]] = "oneof"    -> validations[f[1]].OneOf ]

\* C17: the emitted Validate evaluates its checks in the order of the
\* validation list and, for one entry, in the order required, min, max,
\* oneOf; it returns at the first rule that is broken, with an error that
\* names the path of the field and the rule, and evaluates nothing after
\* it; when no rule is broken it evaluates every check and returns nil.
C17_FirstFailure ==
    /\ \A i \in 1..Len(checked) : checked[i] = i + 1
    /\ pc = "run.done" =>
          IF Failures = {}
          THEN /\ verr = <<>>
               /\ Len(checked) = Cardinality(RulePairs)
          ELSE /\ verr = << SaidError(FirstFailure) >>
               /\ Len(checked)
                    = Cardinality({ f \in RulePairs : Earlier(f, FirstFailure) })

\* C17 witness: port 0 breaks required and min of the first entry and level
\* breaks the second entry; the method returned `server.port is required`
\* after one check
C17_Witness ==
    /\ pc = "run.done"
    /\ Len(validations) = 2
    /\ validations[1] = FieldValidation(xPort, pPort, sInt, TRUE, << LowBound >>,
                                        << HighBound >>, <<>>)
    /\ validations[2].GoExpr = xLevel
    /\ Cardinality(Failures) >= 3
    /\ checked = << 2 >>
    /\ verr = << [ path |-> pPort, what |-> "is required", arg |-> <<>> ] >>

---------------------------------------------------------------------------
(* gen-go: mappings nested inside a section.                               *)

\* the mapping-valued fields written inside the struct of a section
NestedMappingFieldLines == { i \in MappingFieldLines : OwnerOf(i) # rootName }

---------------------------------------------------------------------------
(* registry: calls of ensureMapType on one registry.                       *)

kADashB == << "a", "-", "b" >>

\* the arguments of a call: the key a, the key b of the section a, and the
\* keys a.b, a_b and a-b, with the segments the traversal gives them
CallTarget(yamlPath, pathSegments) ==
    [ yamlPath |-> yamlPath, pathSegments |-> pathSegments ]

CallTargets ==
    { CallTarget(kA, << toExportedName(kA) >>),
      CallTarget(kA \o << "." >> \o kB, << toExportedName(kA), toExportedName(kB) >>),
      CallTarget(kADotB, << toExportedName(kADotB) >>),
      CallTarget(kAUnderB, << toExportedName(kAUnderB) >>),
      CallTarget(kADashB, << toExportedName(kADashB) >>) }

CallMaps == { EmptyMap.m, (kC :> StringVal), (kB :> EmptyMap) }

RegistryRootNames ==
    { sConfig, << "A", "B" >> \o sConfig, << "A", "B" >> \o sConfig \o << "2" >> }

\* the record of a call: its arguments, the registry before it, the name
\* returned, whether byYAMLPath had the path
CallOf(n, t, m, before, name, hit) ==
    [ n |-> n, yamlPath |-> t.yamlPath, pathSegments |-> t.pathSegments, m |-> m,
      before |-> before, name |-> name, hit |-> hit ]

InitRegistry ==
    /\ pc = "reg.idle"
    /\ rootName \in RegistryRootNames
    /\ reg = newTypeRegistry(rootName)
    /\ call = CallOf(0, CallTarget(<<>>, <<>>), EmptyMap.m, reg, <<>>, FALSE)
    /\ run = 0 /\ doc = <<>> /\ validations = <<>> /\ typeNames = <<>> /\ ti = 0
    /\ out = <<>> /\ result = << <<>>, <<>> >>
    /\ ValIdle
    /\ ExpIdle
    /\ LoadIdle
    /\ RunIdle

\* ensureMapType on a path byYAMLPath has
EnsureMapTypeAgain ==
    /\ pc = "reg.idle"
    /\ call.n < MaxCalls
    /\ \E t \in CallTargets, m \in CallMaps, seed \in Seeds :
          /\ t.yamlPath \in DOMAIN reg.byYAMLPath
          /\ reg' = ensureMapType(reg, t.pathSegments, t.yamlPath, m, seed).reg
          /\ call' = CallOf(call.n + 1, t, m, reg,
                            ensureMapType(reg, t.pathSegments, t.yamlPath, m, seed).name,
                            TRUE)
    /\ UNCHANGED <<pc, run, rootName, doc, validations, typeNames, ti, out, result>>
    /\ UNCHANGED <<valVars, expVars, loadVars, runVars>>

\* ensureMapType on a new path, up to `typeName := r.deriveTypeName(pathSegments)`
DeriveTypeName ==
    /\ pc = "reg.idle"
    /\ call.n < MaxCalls
    /\ \E t \in CallTargets, m \in CallMaps :
          /\ t.yamlPath \notin DOMAIN reg.byYAMLPath
          /\ reg' = deriveTypeName(reg, t.pathSegments).reg
          /\ call' = CallOf(call.n + 1, t, m, reg,
                            deriveTypeName(reg, t.pathSegments).name, FALSE)
    /\ pc' = "reg.register"
    /\ UNCHANGED <<run, rootName, doc, validations, typeNames, ti, out, result>>
    /\ UNCHANGED <<valVars, expVars, loadVars, runVars>>

\* the rest of ensureMapType: the four assignments and the loop over the keys
RegisterType ==
    /\ pc = "reg.register"
    /\ \E seed \in Seeds :
          reg' = ensureChildren(
                     Register(reg, call.name, call.pathSegments, call.yamlPath, call.m),
                     sortedKeys(call.m, seed), 1, call.m, call.yamlPath,
                     call.pathSegments, seed)
    /\ pc' = "reg.idle"
    /\ UNCHANGED <<run, rootName, doc, validations, typeNames, ti, out, result, call>>
    /\ UNCHANGED <<valVars, expVars, loadVars, runVars>>

NextRegistry == EnsureMapTypeAgain \/ DeriveTypeName \/ RegisterType

SpecRegistry == InitRegistry /\ [][NextRegistry]_vars

---------------------------------------------------------------------------
(* registry: properties.                                                   *)

\* the candidate name of the call, after the suffix for the root name
SaidCandidate ==
    IF CandidateName(call.pathSegments) = rootName
    THEN CandidateName(call.pathSegments) \o sSection
    ELSE CandidateName(call.pathSegments)

\* C19: deriveTypeName returns the candidate when it is not in usedNames;
\* when it is, the candidate followed by the smallest n >= 2 for which
\* candidate+n is not in usedNames; the returned name is added to usedNames
\* and nothing else of the registry changes.
C19_SmallestNumber ==
    pc = "reg.register" =>
       /\ SaidCandidate \notin call.before.usedNames => call.name = SaidCandidate
       /\ SaidCandidate \in call.before.usedNames =>
             \E n \in 2..(Cardinality(call.before.usedNames) + 2) :
                /\ call.name = SaidCandidate \o Itoa(n)
                /\ call.name \notin call.before.usedNames
                /\ \A k \in 2..(n - 1) :
                      (SaidCandidate \o Itoa(k)) \in call.before.usedNames
       /\ reg = [ call.before EXCEPT !.usedNames = @ \cup { call.name } ]

\* C19 witness: the root type is ABConfig2 and ABConfig is taken; the key
\* a-b was named ABConfig3
C19_Witness ==
    /\ pc = "reg.register"
    /\ rootName = << "A", "B" >> \o sConfig \o << "2" >>
    /\ SaidCandidate \in call.before.usedNames
    /\ call.yamlPath = kADashB
    /\ call.name = << "A", "B" >> \o sConfig \o << "3" >>

\* C20: a call of ensureMapType on a path that has a name returns that name
\* and leaves the registry as it was, whatever mapping and segments it is
\* given; two paths never have the same name, even with equal mappings.
C20_IdempotentPerPath ==
    /\ (pc = "reg.idle" /\ call.hit) =>
          /\ call.name = call.before.byYAMLPath[call.yamlPath]
          /\ reg = call.before
    /\ \A p, q \in DOMAIN reg.byYAMLPath :
          p # q => reg.byYAMLPath[p] # reg.byYAMLPath[q]

\* C20 witness: a second call on a path with another mapping than the one
\* registered, in a registry where two paths have equal mappings
C20_Witness ==
    /\ pc = "reg.idle" /\ call.hit
    /\ call.m # reg.defsByType[call.name]
    /\ call.name = reg.byYAMLPath[call.yamlPath]
    /\ \E p, q \in DOMAIN reg.byYAMLPath :
          /\ p # q
          /\ reg.defsByType[reg.byYAMLPath[p]] = reg.defsByType[reg.byYAMLPath[q]]

---------------------------------------------------------------------------
(* gen-go: the fields of an emitted struct.                                *)

\* the `}` lines of the builder: one for each struct written
StructEnds == { i \in 1..Len(out) : out[i].kind = "end" }

\* the `type ... struct {` line of the struct that ends at line e
StartOf(e) ==
    CHOOSE j \in 1..e : out[j].kind = "type" /\ \A k \in (j + 1)..e : out[k].kind # "type"

\* the lines between the two
FieldsOf(e) == (StartOf(e) + 1)..(e - 1)

\* the mapping a struct is written from
MappingOf(name) == IF name = rootName THEN doc ELSE reg.defsByType[name]

\* C21: in every emitted struct, the root type and the nested ones, there
\* is one field for each key of its mapping, the fields stand in increasing
\* byte order of their keys whatever order the maps were ranged over, and
\* the yaml tag of a field is the key as the document has it.
C21_FieldOrder ==
    \A e \in StructEnds :
       /\ \A i \in FieldsOf(e) : out[i].kind = "field"
       /\ { out[i].key : i \in FieldsOf(e) } = DOMAIN MappingOf(out[e].name)
       /\ \A i, j \in FieldsOf(e) : i < j => StrLess(out[i].key, out[j].key)

\* C21 witness: a finished text whose root struct and one nested struct
\* have two fields each, the root keys being a.b and a_b
C21_Witness ==
    /\ pc = "gen.return"
    /\ DOMAIN doc = { kADotB, kAUnderB }
    /\ \E e, f \in StructEnds :
          /\ out[e].name = rootName
          /\ out[e - 2].key = kADotB /\ out[e - 1].key = kAUnderB
          /\ out[f].name # rootName
          /\ out[f - 2].key = kB /\ out[f - 1].key = kC

---------------------------------------------------------------------------
(* names: toExportedName on a key, then deriveTypeName on its segment.     *)

\* a letter, a capital, a digit, each separator of splitFn and a character
\* that is none of these
KeyChars == { "a", "B", "1", "_", "-", " ", ".", "+" }

Keys == UNION { [ 1..n -> KeyChars ] : n \in 0..MaxKeyLen }

\* the record of the key: the exported name and the type name, once computed
NameOf(key, name, typeName) == [ key |-> key, name |-> name, typeName |-> typeName ]

InitNames ==
    /\ pc = "name.key"
    /\ rootName \in RootNames
    /\ reg = newTypeRegistry(rootName)
    /\ call \in { NameOf(k, <<>>, <<>>) : k \in Keys }
    /\ run = 0 /\ doc = <<>> /\ validations = <<>> /\ typeNames = <<>> /\ ti = 0
    /\ out = <<>> /\ result = << <<>>, <<>> >>
    /\ ValIdle
    /\ ExpIdle
    /\ LoadIdle
    /\ RunIdle

\* `fieldName := toExportedName(key)`
ExportKey ==
    /\ pc = "name.key"
    /\ call' = NameOf(call.key, toExportedName(call.key), <<>>)
    /\ pc' = "name.derive"
    /\ UNCHANGED <<run, rootName, doc, validations, reg, typeNames, ti, out, result>>
    /\ UNCHANGED <<valVars, expVars, loadVars, runVars>>

\* `typeName := r.deriveTypeName(pathSegments)` on the segments
\* []string{toExportedName(key)} of a top-level key
DeriveForKey ==
    /\ pc = "name.derive"
    /\ reg' = deriveTypeName(reg, << call.name >>).reg
    /\ call' = NameOf(call.key, call.name, deriveTypeName(reg, << call.name >>).name)
    /\ pc' = "name.done"
    /\ UNCHANGED <<run, rootName, doc, validations, typeNames, ti, out, result>>
    /\ UNCHANGED <<valVars, expVars, loadVars, runVars>>

NextNames == ExportKey \/ DeriveForKey

SpecNames == InitNames /\ [][NextNames]_vars

IsUpper(c) == \E i \in 1..Len(UpperLetters) : UpperLetters[i] = c

IsLetter(c) == IsLower(c) \/ IsUpper(c)

\* a Go identifier: a letter or _, then letters, digits and _
IsIdentifier(s) ==
    /\ s # <<>>
    /\ IsLetter(s[1]) \/ s[1] = "_"
    /\ \A i \in 2..Len(s) : IsLetter(s[i]) \/ IsDigit(s[i]) \/ s[i] = "_"

---------------------------------------------------------------------------
(* gen-go: the type of a list field.                                       *)

\* the dotted path of the field written at line i of the builder
PathOfField(i) ==
    IF OwnerOf(i) = rootName THEN out[i].key
    ELSE reg.pathByType[OwnerOf(i)] \o << "." >> \o out[i].key

\* the type a value at a path is to have: a list has the type of its first
\* element, an empty list and a value of no known kind are Unknown
RECURSIVE SaidType(_, _)
SaidType(v, path) ==
    CASE v.kind = "map"  -> reg.byYAMLPath[path]
      [] v.kind = "list" ->
            IF v.l = <<>> THEN << "[", "]", "a", "n", "y" >>
            ELSE sBrackets \o SaidType(Head(v.l), path \o sBrackets)
      [] v.kind = "bool"    -> sBool
      [] v.kind = "int"     -> sInt
      [] v.kind = "float64" -> sFloat64
      [] v.kind = "string"  -> sString
      [] OTHER              -> sAny

ListFieldLines ==
    { i \in 1..Len(out) : out[i].kind = "field" /\ FieldValueAt(i).kind = "list" }

\* C23: a list field has the type list-of the type of its first element,
\* whatever follows it; the path of the elements is registered exactly when
\* the first element is a mapping, and then with that mapping, so a mapping
\* after the first gets no definition; an empty list is []any and a value of
\* no known kind is any.
C23_ListFirstElement ==
    /\ \A i \in ListFieldLines :
          /\ out[i].type = SaidType(FieldValueAt(i), PathOfField(i))
          /\ (PathOfField(i) \o sBrackets) \in RegisteredPaths
                <=> (FieldValueAt(i).l # <<>> /\ Head(FieldValueAt(i).l).kind = "map")
          /\ (PathOfField(i) \o sBrackets) \in RegisteredPaths =>
                reg.defsByType[reg.byYAMLPath[PathOfField(i) \o sBrackets]]
                  = Head(FieldValueAt(i).l).m
    /\ \A i \in 1..Len(out) :
          (out[i].kind = "field" /\ FieldValueAt(i).kind = "nil") => out[i].type = sAny

\* C23 witness: the list a of a string and a mapping is []string and the
\* path a[] has no type; another field is the empty list, of type []any
C23_Witness ==
    /\ pc = "gen.return"
    /\ kA \in DOMAIN doc
    /\ doc[kA] = ListVal(<< StringVal, EmptyMap >>)
    /\ (kA \o sBrackets) \notin RegisteredPaths
    /\ \E i, j \in ListFieldLines :
          /\ out[i].key = kA /\ out[i].type = sBrackets \o sString
          /\ FieldValueAt(j) = ListVal(<<>>) /\ out[j].type = sBrackets \o sAny

---------------------------------------------------------------------------
(* walk: collectValidations on a document of several fields and sections.  *)
(* The document is written from a tree of fields, so that its fields, in   *)
(* the order written, are known apart from the walk.                       *)

kZ == << "z" >>

\* a scalar field: its key, the tag of its value, whether its line ends
\* with `# validate:required`
Leaf(key, tag, rule) == [ key |-> key, tag |-> tag, rule |-> rule, kids |-> <<>> ]

\* a mapping field and its fields
Section(key, rule, kids) == [ key |-> key, tag |-> "!!map", rule |-> rule, kids |-> kids ]

ScalarTags == { "!!bool", "!!int", "!!float", "!!str", "!!null" }

\* the lists of at most n fields of F with keys of K; a YAML mapping has
\* no key twice
RECURSIVE ListsOver(_, _, _)
ListsOver(F, K, n) ==
    { <<>> } \cup
    (IF n = 0 THEN {}
     ELSE UNION { { << f >> \o rest : rest \in ListsOver(F, K \ { f.key }, n - 1) } :
                    f \in { g \in F : g.key \in K } })

FieldLists(F) == ListsOver(F, { f.key : f \in F }, MaxFields)

InnerSections ==
    { Section(kB, r, kids) :
        r \in BOOLEAN, kids \in FieldLists({ Leaf(kC, "!!str", q) : q \in BOOLEAN }) }

MidFields ==
    { Leaf(kPort, t, r) : t \in { "!!int", "!!null" }, r \in BOOLEAN } \cup InnerSections

TopFields ==
    { Section(kServer, r, kids) : r \in BOOLEAN, kids \in FieldLists(MidFields) }
    \cup { Leaf(kA, t, r) : t \in ScalarTags, r \in BOOLEAN }
    \cup { Leaf(kZ, "!!str", r) : r \in BOOLEAN }

WalkShapes == FieldLists(TopFields)

sRequiredComment == << "#", " " >> \o sValidate \o sRequired

CommentOf(f) == IF f.rule THEN sRequiredComment ELSE <<>>

\* the text of a scalar of a tag
ScalarText(tag) ==
    CASE tag = "!!bool"  -> << "t", "r", "u", "e" >>
      [] tag = "!!int"   -> << "1" >>
      [] tag = "!!float" -> << "1", ".", "5" >>
      [] tag = "!!str"   -> << "x" >>
      [] tag = "!!null"  -> << "n", "u", "l", "l" >>

RECURSIVE RenderFields(_)

\* the key node and the value node of a field
RenderField(f) ==
    << KeyNode(f.key),
       IF f.tag = "!!map" THEN MappingNode(CommentOf(f), RenderFields(f.kids))
       ELSE ScalarNode(f.tag, ScalarText(f.tag), CommentOf(f)) >>

\* the Content of a mapping node
RenderFields(fs) ==
    IF fs = <<>> THEN <<>> ELSE RenderField(Head(fs)) \o RenderFields(Tail(fs))

RenderTree(fs) == DocumentNode(<< MappingNode(<<>>, RenderFields(fs)) >>)

InitWalk ==
    /\ pc = "walk.start"
    /\ shape \in WalkShapes
    /\ ast = RenderTree(shape)
    /\ vals = <<>>
    /\ GenIdle
    /\ ExpIdle
    /\ LoadIdle
    /\ RunIdle
    /\ CallIdle

\* validations = collectValidations(&root, rootName)
WalkDocument ==
    /\ pc = "walk.start"
    /\ vals' = collectValidations(ast)
    /\ pc' = "walk.done"
    /\ UNCHANGED <<shape, ast>>
    /\ UNCHANGED <<genVars, expVars, loadVars, runVars, call>>

NextWalk == WalkDocument

SpecWalk == InitWalk /\ [][NextWalk]_vars

---------------------------------------------------------------------------
(* walk: properties.                                                       *)

\* the path and the target expression of the field reached by the keys
SaidAt(keys) ==
    [ YAMLPath |-> Join(keys, << "." >>),
      GoExpr   |-> << "c", "." >>
                   \o Join([ i \in 1..Len(keys) |-> toExportedName(keys[i]) ], << "." >>) ]

\* the commented fields of a tree in the order written, a field before the
\* fields inside it
RECURSIVE SaidWalk(_, _)
SaidWalk(fs, keys) ==
    IF fs = <<>> THEN <<>>
    ELSE (IF Head(fs).rule THEN << SaidAt(Append(keys, Head(fs).key)) >> ELSE <<>>)
         \o SaidWalk(Head(fs).kids, Append(keys, Head(fs).key))
         \o SaidWalk(Tail(fs), keys)

\* C24: the entries stand in the order the fields are written in the
\* document, a section's own entry before those of its fields and siblings
\* unsorted; every section is entered, with or without a rule of its own;
\* the yamlPath of an entry is the keys from the root joined by dots and its
\* target is c followed by the exported names of the same keys.
C24_DocumentOrder ==
    pc = "walk.done" =>
       [ i \in 1..Len(vals) |->
           [ YAMLPath |-> vals[i].YAMLPath, GoExpr |-> vals[i].GoExpr ] ]
         = SaidWalk(shape, <<>>)

\* C24 witness: z is written before server, server has no rule and its
\* section b has one; the entries are z, server.b, server.b.c, server.port
C24_Witness ==
    /\ pc = "walk.done"
    /\ Len(shape) = 2
    /\ shape[1].key = kZ /\ shape[2].key = kServer /\ ~shape[2].rule
    /\ Len(vals) = 4
    /\ vals[1].YAMLPath = kZ
    /\ vals[2].YAMLPath = kServer \o << "." >> \o kB
    /\ vals[3].YAMLPath = kServer \o << "." >> \o kB \o << "." >> \o kC
    /\ vals[4].YAMLPath = kServer \o << "." >> \o kPort
    /\ vals[3].GoExpr = << "c", ".", "S", "e", "r", "v", "e", "r", ".", "B", ".", "C" >>
    /\ vals[2].GoType = sAny

---------------------------------------------------------------------------
(* single: the Validate method emitted for one entry, run on one value.    *)

xField == << "c", ".", "F" >>

pField == << "f" >>

GoTypes == { sInt, sFloat64, sString, sBool, sAny }

\* every combination of rules on a field of every kind
SingleEntries ==
    { FieldValidation(xField, pField, t, r, mn, mx, oo) :
        t \in GoTypes, r \in BOOLEAN, mn \in { <<>>, << LowBound >> },
        mx \in { <<>>, << HighBound >> }, oo \in { <<>>, Levels } }

\* the values of the field: for a number, below the bounds, zero, on each
\* bound, between them, above them
ValuesOf(goType) ==
    CASE goType \in { sInt, sFloat64 } ->
            { 0 - 1, 0, LowBound, LowBound + 1, HighBound, HighBound + 1 }
      [] goType = sString -> { <<>>, << "a" >>, << "z" >> }
      [] goType = sBool   -> { FALSE, TRUE }
      [] OTHER            -> { "nil" }

InitSingle ==
    /\ pc = "run.emit"
    /\ rootName = sConfig
    /\ validations \in { << e >> : e \in SingleEntries }
    /\ conf \in { (xField :> x) : x \in ValuesOf(validations[1].GoType) }
    /\ out = <<>>
    /\ mi = 0
    /\ checked = <<>>
    /\ verr = <<>>
    /\ run = 0 /\ doc = <<>> /\ reg = NoRegistry /\ typeNames = <<>> /\ ti = 0
    /\ result = << <<>>, <<>> >>
    /\ ValIdle
    /\ ExpIdle
    /\ LoadIdle
    /\ CallIdle

SpecSingle == InitSingle /\ [][NextRun]_vars

\* the value x breaks the entry v, as the rules are documented
SaidFails(v, x) ==
    \/ v.Required /\ v.GoType = sString /\ x = <<>>
    \/ v.Required /\ v.GoType \in { sInt, sFloat64 } /\ x = 0
    \/ v.GoType \in { sInt, sFloat64 } /\ v.Min # <<>> /\ x < v.Min[1]
    \/ v.GoType \in { sInt, sFloat64 } /\ v.Max # <<>> /\ x > v.Max[1]
    \/ v.GoType = sString /\ v.OneOf # <<>>
          /\ \A j \in 1..Len(v.OneOf) : v.OneOf[j] # x

\* the checks an entry is to give: required on a string or a number, min
\* and max on a number, oneOf on a string
SaidChecks(v) ==
    (IF v.Required /\ v.GoType \in { sInt, sFloat64, sString } THEN 1 ELSE 0)
    + (IF v.Min # <<>> /\ v.GoType \in { sInt, sFloat64 } THEN 1 ELSE 0)
    + (IF v.Max # <<>> /\ v.GoType \in { sInt, sFloat64 } THEN 1 ELSE 0)
    + (IF v.OneOf # <<>> /\ v.GoType = sString THEN 1 ELSE 0)

\* C25: the method emitted for one entry returns an error exactly when the
\* value is an empty string or a zero number with required set, a number
\* strictly below min or strictly above max, or a string that is none of
\* the alternatives of a non-empty oneOf; a value on a bound passes; no
\* check is written for required on a bool or a non-scalar field, min or
\* max on a field that is not a number, oneOf on a field that is not a
\* string.
C25_SingleEntry ==
    /\ pc # "run.emit" =>
          Cardinality(LinesOf(out, "check")) = SaidChecks(validations[1])
    /\ pc = "run.done" =>
          (verr # <<>>) = SaidFails(validations[1], conf[xField])

\* C25 witness: a float64 field with min and max; the value on the upper
\* bound passed both checks
C25_Witness ==
    /\ pc = "run.done"
    /\ validations
         = << FieldValidation(xField, pField, sFloat64, FALSE, << LowBound >>,
                              << HighBound >>, <<>>) >>
    /\ conf[xField] = HighBound
    /\ Len(checked) = 2
    /\ verr = <<>>

---------------------------------------------------------------------------
(* gen-go: the registry during emission.                                   *)

\* a type expression without its leading []
RECURSIVE ElementType(_)
ElementType(t) == IF HasPrefix(t, sBrackets) THEN ElementType(Drop(t, 2)) ELSE t

BuiltinTypes == { sBool, sInt, sFloat64, sString, sAny }

\* the type names the field lines of the builder refer to
ReferencedTypes ==
    { ElementType(out[i].type) : i \in LinesOf(out, "field") } \ BuiltinTypes

\* C26: writeStruct and writeRootStruct leave the registry as
\* collectFromRoot left it (byYAMLPath, pathByType, segmentsByYAML,
\* defsByType and usedNames all unchanged), and every type name a field
\* refers to is in the list typeNames sorted before the first struct was
\* written.
C26_EmissionFrame ==
    /\ [][(WriteStruct \/ WriteRootStruct) => reg' = reg]_vars
    /\ [](ReferencedTypes \subseteq { typeNames[j] : j \in 1..Len(typeNames) })

\* C26 witness: a finished text whose fields refer to a section, a section
\* inside it and the element type of a list, three registered types
C26_Witness ==
    /\ pc = "gen.return"
    /\ Len(typeNames) >= 3
    /\ Cardinality(ReferencedTypes) >= 3
    /\ \E i \in LinesOf(out, "field") : HasPrefix(out[i].type, sBrackets)
                                          /\ ElementType(out[i].type) \in ReferencedTypes
    /\ NestedMappingFieldLines # {}

---------------------------------------------------------------------------
(* walk: the import of fmt and its use.                                    *)

\* C27, as claimed: when the list collectValidations returns makes
\* generateGoCode import fmt, the Validate method written from that list
\* holds at least one check, whose failure branch is the use of fmt.
C27_ImportUsed ==
    pc = "walk.done" =>
       (requiredImports(vals) # <<>>
          => LinesOf(writeValidateMethod(sConfig, vals), "check") # {})

---------------------------------------------------------------------------
(* walk: the kind of a scalar, from its node and from its decoded value.   *)

\* `yaml.Unmarshal(raw, &data)` on a scalar: the value the any tree holds
\* for a node of a tag; a null decodes to a nil interface
DecodeScalar(n) ==
    CASE n.Tag = "!!bool"  -> BoolVal
      [] n.Tag = "!!int"   -> IntVal
      [] n.Tag = "!!float" -> FloatVal
      [] n.Tag = "!!str"   -> StringVal
      [] n.Tag = "!!null"  -> NilVal

\* the scalar fields of a mapping node, at any depth: the dotted path of
\* each and its value node
RECURSIVE ScalarFields(_, _)
ScalarFields(node, prefix) ==
    UNION { IF node.Content[i].Kind = "scalar"
            THEN { [ path |-> YamlPathOf(prefix, node.Content[i - 1].Value),
                     node |-> node.Content[i] ] }
            ELSE ScalarFields(node.Content[i],
                              YamlPathOf(prefix, node.Content[i - 1].Value)) :
              i \in { j \in 1..Len(node.Content) : j % 2 = 0 } }

\* the type the schema extractor gives a decoded scalar
SchemaTypeOf(n) ==
    goTypeExprWithRegistry(newTypeRegistry(sConfig), DecodeScalar(n), <<>>, <<>>, 0).expr

\* C28, as claimed: for every scalar field of the document the kind
\* inferGoTypeFromNode reads off the tag is the type goTypeExprWithRegistry
\* gives the decoded value, null included, and the entry of a commented
\* scalar carries that type.
C28_KindsAgree ==
    pc = "walk.done" =>
       \A f \in ScalarFields(ast.Content[1], <<>>) :
          /\ inferGoTypeFromNode(f.node) = SchemaTypeOf(f.node)
          /\ \A i \in 1..Len(vals) :
                vals[i].YAMLPath = f.path => vals[i].GoType = SchemaTypeOf(f.node)

---------------------------------------------------------------------------
(* expand: a variable set to the empty string.                             *)

IsPlaceholder(p) == p.kind \in { "ph", "phd" }

\* the variable of a placeholder is set, to "" or to a text
IsSet(p) == IsPlaceholder(p) => env[p.name] # <<>>

\* the variable of a placeholder is set to ""
SetEmpty(p) == IsPlaceholder(p) /\ env[p.name] = << <<>> >>

\* a text with each placeholder replaced by the value of its variable
ValueText(ps) ==
    Join([ i \in 1..Len(ps) |->
             IF IsPlaceholder(ps[i]) THEN env[ps[i].name][1] ELSE ps[i].name ], <<>>)

\* the names an error message lists
NamesListed(err) ==
    IF err = <<>> THEN {}
    ELSE { n \in EnvNames : Index(Drop(err[1], Len(sMissingPrefix)), n) # -1 }

\* C29: a variable set to "" is present: when every variable a text names
\* is set, each placeholder is replaced by the value of its variable, the
\* empty one included and whatever default it carries, with no error in
\* either mode; and no error message lists a name that is set to "".
C29_EmptyIsPresent ==
    (pc = "exp.done" /\ Closed(pieces)) =>
       /\ (\A i \in 1..Len(pieces) : IsSet(pieces[i])) =>
             expanded = [ out |-> ValueText(pieces), err |-> <<>> ]
       /\ \A i \in 1..Len(pieces) :
             SetEmpty(pieces[i]) => pieces[i].name \notin NamesListed(expanded.err)

\* C29 witness: strict mode, A and B set to ""; ${A:-d}x${B} gave x and no
\* error
C29_Witness ==
    /\ pc = "exp.done" /\ strict
    /\ env[vA] = << <<>> >> /\ env[vB] = << <<>> >>
    /\ pieces = << PhDef(vA, << "d" >>), Lit(<< "x" >>), Ph(vB) >>
    /\ expanded = [ out |-> << "x" >>, err |-> <<>> ]

---------------------------------------------------------------------------
(* gen-go: the field names of an emitted struct.                           *)

\* C30, as claimed: in every emitted struct, the root type and the nested
\* ones, no two fields have the same name.
C30_DistinctFieldNames ==
    \A e \in StructEnds :
       \A i, j \in FieldsOf(e) : i # j => out[i].name # out[j].name

=============================================================================
